---- MODULE Spec2Model ----
(***************************************************************************)
(* Model of scripts/fetch-feeds.js: the feed fetcher of the RSS reader.    *)
(*                                                                         *)
(* Node runs the script on one thread: a callback or the continuation of   *)
(* an await runs to its next suspension point without interleaving.  Each  *)
(* action below is one such run-to-completion step.                        *)
(*                                                                         *)
(*   Spec       main(): Phase A (one fetch+parse task per feed) and        *)
(*              Phase B (the pool of processNext workers).                 *)
(*   SpecFetch  one fetchWithRetry(url) call, request by request, against  *)
(*              an arbitrary server.                                       *)
(*   SpecExtract, SpecWorklist, SpecOutput                                 *)
(*              one extractArticleContent call; Phase B over worklists of  *)
(*              several lengths; the output step over configurations.      *)
(*   SpecDecode, SpecParse, SpecClean                                      *)
(*              decodeHtmlEntities, parseRSS and cleanTextContent called   *)
(*              alone on bounded inputs.                                   *)
(*   SpecCap, SpecParagraphs, SpecCharset                                  *)
(*              the per-feed cap, cleanTextContent on short lines and the  *)
(*              decoding of a response body, each alone.                   *)
(*   SpecRequests                                                          *)
(*              one feed of Phase A or one item of Phase B, request by     *)
(*              request, followRedirect included.                          *)
(*   SpecSchedule                                                          *)
(*              main() against a remote side whose answers are fixed.      *)
(*   LiveSpec   Spec under the fairness of settling requests.              *)
(***************************************************************************)
EXTENDS Integers, Sequences, FiniteSets, Bags, TLC

(***************************************************************************)
(* Values                                                                  *)
(***************************************************************************)

\* JS null / undefined, for fields that hold strings otherwise.
Null == "<null>"
Absent == "<undefined>"

\* The number of items of the largest remote feed document of the model.
MaxDocItems == 6

\* scripts/fetch-feeds.js:491
concurrency == 10

Min(a, b) == IF a <= b THEN a ELSE b

\* url.includes('news.google.com')
AggregatorUrls == {"https://news.google.com/rss/articles/1", "https://news.google.com/articles/1"}
IsOnAggregator(url) == url \in AggregatorUrls

\* config.json, as the script reads it (fetchFullText is the variable of that name).
config ==
  [articlesPerFeed |-> 5,
   categories |->
     << [name |-> "News",
         feeds |-> << [title |-> "Google News", url |-> "https://news.google.com/rss", articlesPerFeed |-> 1] >>],
        [name |-> "Tech",
         feeds |-> << [title |-> "Hacker News", url |-> "https://hn.example/rss", articlesPerFeed |-> 0],
                      [title |-> "Blog", url |-> "https://blog.example/feed", articlesPerFeed |-> 9] >>] >>]

RECURSIVE FlattenFeeds(_, _)
FlattenFeeds(cats, c) ==
  IF c > Len(cats) THEN << >>
  ELSE [k \in 1..Len(cats[c].feeds) |->
          [title |-> cats[c].feeds[k].title,
           url |-> cats[c].feeds[k].url,
           articlesPerFeed |-> cats[c].feeds[k].articlesPerFeed,
           categoryName |-> cats[c].name]]
       \o FlattenFeeds(cats, c + 1)

\* main: the feeds of every category, in configuration order.
allFeeds == FlattenFeeds(config.categories, 1)

Feeds == 1..Len(allFeeds)

(***************************************************************************)
(* The remote side: what each feed URL serves when it answers with a feed. *)
(***************************************************************************)

\* A raw feed entry: its guid and its link ("" stands for an entry with no link).
RawLink(f, j) ==
  IF f = 1 THEN "https://news.google.com/rss/articles/1"
  ELSE IF f = 2 /\ j = 2 THEN ""
  ELSE "https://pub.example/" \o ToString(f) \o "/" \o ToString(j)

DocLen(f) == IF f = 1 THEN 2 ELSE IF f = 2 THEN 5 ELSE MaxDocItems

\* The entry's title ("" stands for an entry with no title).
RawTitle(f, j) == IF f = 3 /\ j = 1 THEN "" ELSE "Title " \o ToString(f) \o "-" \o ToString(j)

\* A date string: s seconds after the epoch, s a single digit.
IsoDate(s) == "1970-01-01T00:00:0" \o ToString(s) \o "Z"

\* A place of the parsed tree where the parser puts nothing, one value (a lone
\* element) or an array (a repeated element).
None == [shape |-> "none", value |-> << >>]
One(node) == [shape |-> "one", value |-> node]
Many(nodes) == [shape |-> "many", value |-> nodes]

\* An entry as the XML parser delivers it, with none of the fields parseRSS
\* reads: "" stands for a field the entry does not have, links for a link
\* element given by attributes (href, rel) rather than by its text.
EmptyNode ==
  [guid |-> "", id |-> "", link |-> "", links |-> None, title |-> "",
   encoded |-> "", content |-> "", description |-> "", summary |-> "",
   pubDate |-> "", updated |-> "", published |-> "", dcDate |-> "", comments |-> ""]

\* An RSS 2.0 entry: guid, link, title, description, pubDate and, for the second
\* feed, the comments URL.
RawEntry(f, j) ==
  [EmptyNode EXCEPT
     !.guid = ToString(f) \o "-" \o ToString(j),
     !.link = RawLink(f, j),
     !.title = RawTitle(f, j),
     !.description = "Summary " \o ToString(f) \o "-" \o ToString(j),
     !.pubDate = IsoDate(j),
     !.comments = IF f = 2 THEN "https://hn.example/item?id=" \o ToString(j) ELSE ""]

\* A parsed document: the three places parseRSS looks at.
RssDoc(channelItem) ==
  [malformed |-> FALSE, rss |-> channelItem, feed |-> None, rdf |-> None]

RemoteDoc(f) == RssDoc(Many([j \in 1..DocLen(f) |-> RawEntry(f, j)]))

Malformed == [malformed |-> TRUE, rss |-> None, feed |-> None, rdf |-> None]

\* What a request for a feed can fail with (err.message).
FetchErrors == {"Timeout", "HTTP 404"}
ParseError == "Unexpected end of input"

\* Pages: what extractArticleContent can come back with for an article URL.
Content(url) == "<p>" \o url \o "</p>"

\* The pages of the first FlakyPages entries of a feed extract or not, from one
\* run to the next; the other pages never yield an article.
FlakyPages == 1

ExtractOutcomes(ref, url) ==
  IF ref[2] <= FlakyPages THEN {Content(url), Null, ""} ELSE {Null}

\* What followRedirect can resolve with for an aggregator link: the link itself,
\* another aggregator URL, or the publisher's URL.
ProbeOutcomes(url) ==
  {url, "https://news.google.com/articles/1", "https://pub.example/real"}

\* No function is called alone.
NoFunction == [fn |-> "none"]

(***************************************************************************)
(* State                                                                   *)
(***************************************************************************)
VARIABLES
  fetchFullText,  \* config.fetchFullText
  tasks,          \* feedPromises: per feed, where its async task stands
  settled,        \* the feeds in the order their tasks settled
  mainPc,         \* where main() stands
  feedResults,    \* main: feedResults
  heap,           \* the item objects, by reference <<feed, position>>
  allItems,       \* main: allItems (references)
  index, extracted, failed, completed,
  workers,        \* the suspended processNext invocations (a bag of frames)
  claimed,        \* the worklist positions claimed so far, in order
  progress,       \* the values of completed at which progress was reported
  categoryNames,  \* config.categories, by name
  files,          \* the files written, in order: [name, data]
  ex,             \* SpecExtract: the extractArticleContent call of the one worker
  pure,           \* the call of a function taken alone: its arguments and results
  fw,             \* SpecFetch: the fetchWithRetry call
  fu,             \* SpecFetch: the fetchUrl call in progress
  net,            \* SpecFetch: the requests issued and how each ended
  sent,           \* SpecRequests: the number of requests issued so far
  rd              \* SpecRequests: the followRedirect call in progress

pipeVars == <<fetchFullText, tasks, settled, mainPc, feedResults, heap, allItems,
              index, extracted, failed, completed, workers, claimed, progress,
              categoryNames, files>>
fetchVars == <<fw, fu, net, sent, rd>>
extractVars == <<ex>>
pureVars == <<pure>>
vars == <<pipeVars, fetchVars, extractVars, pureVars>>


(***************************************************************************)
(* Text: strings as sequences of one-character strings                     *)
(* (decodeHtmlEntities, lines 19-39)                                       *)
(***************************************************************************)

\* The characters of the titles and category names of the model, one
\* one-character string per character.  (No other string is ever slugified; the
\* last case only makes the operator total.)
Chars(str) ==
  CASE str = "News"        -> <<"N", "e", "w", "s">>
    [] str = "Tech"        -> <<"T", "e", "c", "h">>
    [] str = "Google News" -> <<"G", "o", "o", "g", "l", "e", " ", "N", "e", "w", "s">>
    [] str = "Hacker News" -> <<"H", "a", "c", "k", "e", "r", " ", "N", "e", "w", "s">>
    [] str = "Blog"        -> <<"B", "l", "o", "g">>
    [] str = "A B"         -> <<"A", " ", "B">>
    [] str = "a-b"         -> <<"a", "-", "b">>
    [] str = "A"           -> <<"A">>
    [] str = "B C"         -> <<"B", " ", "C">>
    [] str = "C"           -> <<"C">>
    [] str = "Ü!"          -> <<"Ü", "!">>
    [] str = "ue"          -> <<"u", "e">>
    [] str = "R&amp;D"     -> <<"R", "&", "a", "m", "p", ";", "D">>
    [] str = "My GOOGLE NEWS" -> <<"M", "y", " ", "G", "O", "O", "G", "L", "E", " ", "N", "E", "W", "S">>
    [] OTHER               -> <<"?">>

UpperCase == <<"A", "B", "C", "D", "E", "F", "G", "H", "I", "J", "K", "L", "M", "N",
               "O", "P", "Q", "R", "S", "T", "U", "V", "W", "X", "Y", "Z", "Ä", "Ö", "Ü">>
LowerCase == <<"a", "b", "c", "d", "e", "f", "g", "h", "i", "j", "k", "l", "m", "n",
               "o", "p", "q", "r", "s", "t", "u", "v", "w", "x", "y", "z", "ä", "ö", "ü">>
Digits == {"0", "1", "2", "3", "4", "5", "6", "7", "8", "9"}

\* One character of str.toLowerCase().
toLowerCase(c) ==
  IF \E k \in 1..Len(UpperCase) : UpperCase[k] = c
  THEN LowerCase[CHOOSE k \in 1..Len(UpperCase) : UpperCase[k] = c]
  ELSE c

RECURSIVE Join(_)
Join(cs) == IF cs = << >> THEN "" ELSE Head(cs) \o Join(Tail(cs))

\* Lines 21-30: the named entities, in the order of the object's keys.  A
\* character above U+00FF is written by its code point, as in "U+2014".
entities ==
  <<[entity |-> <<"&", "a", "m", "p", ";">>, char |-> "&"],
     [entity |-> <<"&", "l", "t", ";">>, char |-> "<"],
     [entity |-> <<"&", "g", "t", ";">>, char |-> ">"],
     [entity |-> <<"&", "q", "u", "o", "t", ";">>, char |-> "\""],
     [entity |-> <<"&", "#", "3", "9", ";">>, char |-> "'"],
     [entity |-> <<"&", "a", "p", "o", "s", ";">>, char |-> "'"],
     [entity |-> <<"&", "n", "b", "s", "p", ";">>, char |-> " "],
     [entity |-> <<"&", "n", "d", "a", "s", "h", ";">>, char |-> "U+2013"],
     [entity |-> <<"&", "m", "d", "a", "s", "h", ";">>, char |-> "U+2014"],
     [entity |-> <<"&", "l", "s", "q", "u", "o", ";">>, char |-> "U+2018"],
     [entity |-> <<"&", "r", "s", "q", "u", "o", ";">>, char |-> "U+2019"],
     [entity |-> <<"&", "l", "d", "q", "u", "o", ";">>, char |-> "U+201C"],
     [entity |-> <<"&", "r", "d", "q", "u", "o", ";">>, char |-> "U+201D"],
     [entity |-> <<"&", "b", "u", "l", "l", ";">>, char |-> "U+2022"],
     [entity |-> <<"&", "h", "e", "l", "l", "i", "p", ";">>, char |-> "U+2026"],
     [entity |-> <<"&", "c", "o", "p", "y", ";">>, char |-> "©"],
     [entity |-> <<"&", "r", "e", "g", ";">>, char |-> "®"],
     [entity |-> <<"&", "t", "r", "a", "d", "e", ";">>, char |-> "U+2122"],
     [entity |-> <<"&", "e", "u", "r", "o", ";">>, char |-> "U+20AC"],
     [entity |-> <<"&", "p", "o", "u", "n", "d", ";">>, char |-> "£"],
     [entity |-> <<"&", "y", "e", "n", ";">>, char |-> "¥"],
     [entity |-> <<"&", "a", "u", "m", "l", ";">>, char |-> "ä"],
     [entity |-> <<"&", "o", "u", "m", "l", ";">>, char |-> "ö"],
     [entity |-> <<"&", "u", "u", "m", "l", ";">>, char |-> "ü"],
     [entity |-> <<"&", "A", "u", "m", "l", ";">>, char |-> "Ä"],
     [entity |-> <<"&", "O", "u", "m", "l", ";">>, char |-> "Ö"],
     [entity |-> <<"&", "U", "u", "m", "l", ";">>, char |-> "Ü"],
     [entity |-> <<"&", "s", "z", "l", "i", "g", ";">>, char |-> "ß"]>>

\* result.split(entity).join(char): every occurrence, left to right.
RECURSIVE SplitJoin(_, _, _)
SplitJoin(cs, entity, char) ==
  IF Len(cs) < Len(entity) THEN cs
  ELSE IF SubSeq(cs, 1, Len(entity)) = entity
       THEN <<char>> \o SplitJoin(SubSeq(cs, Len(entity) + 1, Len(cs)), entity, char)
       ELSE <<Head(cs)>> \o SplitJoin(Tail(cs), entity, char)

\* Lines 32-34: the loop over the named entities, from the k-th on.
RECURSIVE NamedEntities(_, _)
NamedEntities(cs, k) ==
  IF k > Len(entities) THEN cs
  ELSE NamedEntities(SplitJoin(cs, entities[k].entity, entities[k].char), k + 1)

HexDigits == <<"0", "1", "2", "3", "4", "5", "6", "7", "8", "9", "a", "b", "c", "d", "e", "f">>

\* The value of one digit in the radix, -1 for a character that is no digit of it.
DigitValue(c, radix) ==
  LET l == toLowerCase(c)
  IN IF \E v \in 1..radix : HexDigits[v] = l
     THEN (CHOOSE v \in 1..radix : HexDigits[v] = l) - 1
     ELSE -1

\* The length of the run of digits of the radix at the head of cs.
RECURSIVE DigitRun(_, _)
DigitRun(cs, radix) ==
  IF cs = << >> \/ DigitValue(Head(cs), radix) < 0 THEN 0
  ELSE 1 + DigitRun(Tail(cs), radix)

\* ParseInt that reads every number as decimal.
ParseIntDecimalOnly(ds, radix) ==
  IF ds = << >> THEN 0
  ELSE LET F[k \in 0..Len(ds)] ==
             IF k = 0 THEN 0 ELSE (F[k - 1] * 10 + DigitValue(ds[k], 16)) % 65536
       IN F[Len(ds)]

\* parseInt(num, radix), kept to the 16 bits String.fromCharCode uses.
ParseInt(ds, radix) ==
  IF ds = << >> THEN 0
  ELSE LET F[k \in 0..Len(ds)] ==
             IF k = 0 THEN 0 ELSE (F[k - 1] * radix + DigitValue(ds[k], radix)) % 65536
       IN F[Len(ds)]

\* String.fromCharCode(code), for the codes the references of the model name;
\* the last case stands for every other character.
fromCharCode(code) ==
  CASE code = 35   -> "#"
    [] code = 38   -> "&"
    [] code = 59   -> ";"
    [] code = 60   -> "<"
    [] code = 233  -> "é"
    [] code = 8212 -> "U+2014"
    [] OTHER       -> "¤"

\* result.replace(/&#<prefix>(<digits>+);/g, ...): every numeric reference of
\* the radix, left to right; prefix is << >> for decimal and <<"x">> for hex.
RECURSIVE NumericReferences(_, _, _)
NumericReferences(cs, prefix, radix) ==
  LET open == <<"&", "#">> \o prefix
      rest == SubSeq(cs, Len(open) + 1, Len(cs))
      n == DigitRun(rest, radix)
  IN IF cs = << >> THEN << >>
     ELSE IF /\ Len(cs) >= Len(open) + 2
             /\ SubSeq(cs, 1, Len(open)) = open
             /\ n > 0 /\ Len(rest) > n /\ rest[n + 1] = ";"
          THEN <<fromCharCode(ParseInt(SubSeq(rest, 1, n), radix))>>
               \o NumericReferences(SubSeq(rest, n + 2, Len(rest)), prefix, radix)
          ELSE <<Head(cs)>> \o NumericReferences(Tail(cs), prefix, radix)

\* decodeHtmlEntities(str), str a non-empty string (the empty string and every
\* value that is no string are returned as they are, line 20).
decodeHtmlEntities(cs) ==
  IF cs = << >> THEN cs
  ELSE NumericReferences(NumericReferences(NamedEntities(cs, 1), << >>, 10), <<"x">>, 16)

(***************************************************************************)
(* Phase A: one async task per feed (main, feedPromises)                   *)
(***************************************************************************)

\* str.toLowerCase(), character by character.
LowerChars(str) == [k \in 1..Len(Chars(str)) |-> toLowerCase(Chars(str)[k])]

\* cs.includes(marker)
Includes(cs, marker) ==
  \E i \in 1..(Len(cs) - Len(marker) + 1) : SubSeq(cs, i, i + Len(marker) - 1) = marker

\* feedTitle.toLowerCase().includes('google news')
IsGoogleNewsTitle(title) ==
  Includes(LowerChars(title), <<"g", "o", "o", "g", "l", "e", " ", "n", "e", "w", "s">>)

\* feed.articlesPerFeed || config.articlesPerFeed
MaxArticles(feed) ==
  IF "articlesPerFeed" \in DOMAIN feed /\ feed.articlesPerFeed # 0
  THEN feed.articlesPerFeed
  ELSE config.articlesPerFeed

\* feedTitle.toLowerCase().includes('hacker news')
IsHackerNewsTitle(title) ==
  Includes(LowerChars(title), <<"h", "a", "c", "k", "e", "r", " ", "n", "e", "w", "s">>)

\* decodeHtmlEntities on a string of the model: the strings listed hold a
\* reference, every other string holds no '&' and has nothing to decode.
WithReferences == {"R&amp;D"}
Decoded(str) ==
  IF str \in WithReferences THEN Join(decodeHtmlEntities(Chars(str))) ELSE str

\* a || b for strings: the first one that is not empty.
Or(a, b) == IF a # "" THEN a ELSE b

\* parseDate with -1 for no date.
parseDateNoSentinel(dateStr) ==
  IF dateStr = "" THEN -1
  ELSE IF \E sec \in 0..9 : IsoDate(sec) = dateStr
       THEN 1000 * (CHOOSE sec \in 0..9 : IsoDate(sec) = dateStr)
       ELSE 0

\* parseDate: 0 for no date and for a string that is no date, else the time in
\* milliseconds.
parseDate(dateStr) ==
  IF dateStr = "" THEN 0
  ELSE IF \E sec \in 0..9 : IsoDate(sec) = dateStr
       THEN 1000 * (CHOOSE sec \in 0..9 : IsoDate(sec) = dateStr)
       ELSE 0

\* extractContent: content:encoded, content, description, summary, else ''.
extractContent(item) ==
  Decoded(Or(item.encoded, Or(item.content, Or(item.description, Or(item.summary, "")))))

\* extractTitle without the default.
extractTitleNoDefault(item) == Decoded(item.title)

\* extractTitle: the entry's title, 'Untitled' when it has none.
extractTitle(item) == Decoded(Or(item.title, "Untitled"))

\* Math.random().toString(36), the id of an entry with nothing to take it from.
RandomId == "0.4fzyo82mvyr"

\* Array.isArray(x) ? x : [x]
AsArray(place) == IF place.shape = "many" THEN place.value ELSE <<place.value>>

\* feedItems.slice(0, maxArticles)
Slice(feedItems, maxArticles) == SubSeq(feedItems, 1, Min(Len(feedItems), maxArticles))

\* Lines 382-402: the item of an RSS 2.0 entry (no fullContent yet).
RssItem(item, feedTitle) ==
  [id |-> Or(item.guid, Or(item.link, RandomId)),
   title |-> extractTitle(item),
   link |-> item.link,
   hnCommentsUrl |-> IF IsHackerNewsTitle(feedTitle) /\ item.comments # ""
                     THEN item.comments ELSE Null,
   content |-> extractContent(item),
   date |-> parseDate(item.pubDate),
   feedTitle |-> feedTitle,
   isHackerNews |-> IsHackerNewsTitle(feedTitle),
   isGoogleNews |-> IsGoogleNewsTitle(feedTitle),
   fullContent |-> Absent]

\* Lines 412-414: the link of an Atom entry: of several link elements the href
\* of the first one marked alternate, else of the first one; the href of a
\* single one; else the link's text.
AtomLink(item) ==
  IF item.links.shape = "many"
  THEN LET ls == item.links.value
           alts == {k \in 1..Len(ls) : ls[k].rel = "alternate"}
           alt == IF alts = {} THEN ""
                  ELSE ls[CHOOSE k \in alts : \A l \in alts : k <= l].href
       IN Or(alt, ls[1].href)
  ELSE IF item.links.shape = "one" THEN item.links.value.href
       ELSE item.link

\* Lines 416-423: the item of an Atom entry.
AtomItem(item, feedTitle) ==
  [id |-> Or(item.id, Or(AtomLink(item), RandomId)),
   title |-> extractTitle(item),
   link |-> AtomLink(item),
   content |-> extractContent(item),
   date |-> parseDate(Or(item.updated, item.published)),
   feedTitle |-> feedTitle,
   fullContent |-> Absent]

\* Lines 433-440: the item of an RDF entry.
RdfItem(item, feedTitle) ==
  [id |-> Or(item.link, RandomId),
   title |-> extractTitle(item),
   link |-> item.link,
   content |-> extractContent(item),
   date |-> parseDate(item.dcDate),
   feedTitle |-> feedTitle,
   fullContent |-> Absent]

\* One of the three blocks of parseRSS: nothing when the place is empty, else
\* the items of its first maxArticles entries.
RssBlock(place, feedTitle, maxArticles) ==
  IF place.shape = "none" THEN << >>
  ELSE LET feedItems == Slice(AsArray(place), maxArticles)
       IN [j \in 1..Len(feedItems) |-> RssItem(feedItems[j], feedTitle)]

AtomBlock(place, feedTitle, maxArticles) ==
  IF place.shape = "none" THEN << >>
  ELSE LET feedItems == Slice(AsArray(place), maxArticles)
       IN [j \in 1..Len(feedItems) |-> AtomItem(feedItems[j], feedTitle)]

RdfBlock(place, feedTitle, maxArticles) ==
  IF place.shape = "none" THEN << >>
  ELSE LET feedItems == Slice(AsArray(place), maxArticles)
       IN [j \in 1..Len(feedItems) |-> RdfItem(feedItems[j], feedTitle)]

\* parseRSS: the three blocks run one after the other, each pushing to items.
parseRSS(xml, feedTitle, maxArticles) ==
  RssBlock(xml.rss, feedTitle, maxArticles)
  \o AtomBlock(xml.feed, feedTitle, maxArticles)
  \o RdfBlock(xml.rdf, feedTitle, maxArticles)

\* The task's return value: the success path, and the catch path.
Returned(feed, items) == [feed |-> feed, items |-> items, error |-> Null]
Caught(feed, message) == [feed |-> feed, items |-> << >>, error |-> message]

\* A task that has not returned yet.
NoFeed == [title |-> Null, url |-> Null, articlesPerFeed |-> 0, categoryName |-> Null]
NoResult == [feed |-> NoFeed, items |-> << >>, error |-> Null]

\* The references of the items a task created: <<feed, position>>.
Refs(f, n) == [j \in 1..n |-> <<f, j>>]

\* ShouldRetry that also retries when no retries are left.
ShouldRetryAtZero(retries) == retries >= 0

\* fetchWithRetry's catch block: retry while retries > 0, else rethrow.
ShouldRetry(retries) == retries > 0

\* await fetchUrl(url) of feed f's task resolved with xml: parse it and return,
\* or land in the task's catch when the parse throws.
FeedFetched(f, xml) ==
  /\ tasks[f].pc = "fetch"
  /\ IF xml.malformed
     THEN /\ tasks' = [tasks EXCEPT ![f].pc = "done", ![f].retries = 0, ![f].threw = ParseError,
                                    ![f].result = Caught(allFeeds[f], ParseError)]
          /\ heap' = heap
     ELSE LET items == parseRSS(xml, allFeeds[f].title, MaxArticles(allFeeds[f]))
          IN /\ tasks' = [tasks EXCEPT ![f].pc = "done", ![f].retries = 0,
                            ![f].result = Returned(allFeeds[f], Refs(f, Len(items)))]
             /\ heap' = [r \in DOMAIN heap \cup {<<f, j>> : j \in 1..Len(items)} |->
                           IF r \in DOMAIN heap THEN heap[r] ELSE items[r[2]]]
  /\ settled' = Append(settled, f)
  /\ UNCHANGED <<fetchFullText, mainPc, feedResults, allItems, index, extracted,
                 failed, completed, workers, claimed, progress,
                 categoryNames, files, fetchVars, extractVars, pureVars>>

\* FeedFetchFailed without the task's try/catch: the last failure rejects the
\* task, Promise.all rejects with it and main() ends there.
FeedFetchFailedUncaught(f, err) ==
  /\ tasks[f].pc = "fetch"
  /\ IF tasks[f].retries > 0
     THEN /\ tasks' = [tasks EXCEPT ![f].pc = "backoff"]
          /\ UNCHANGED <<settled, mainPc>>
     ELSE /\ tasks' = [tasks EXCEPT ![f].pc = "done", ![f].retries = 0, ![f].threw = err]
          /\ settled' = Append(settled, f)
          /\ mainPc' = "aborted"
  /\ UNCHANGED <<fetchFullText, feedResults, heap, allItems, index, extracted,
                 failed, completed, workers, claimed, progress, categoryNames, files,
                 fw, fu, net, sent, rd, ex, pure>>

\* await fetchUrl(url) of feed f's task rejected with err: back off and retry,
\* or rethrow into the task's catch.
FeedFetchFailed(f, err) ==
  /\ tasks[f].pc = "fetch"
  /\ IF ShouldRetry(tasks[f].retries)
     THEN /\ tasks' = [tasks EXCEPT ![f].pc = "backoff"]
          /\ settled' = settled
     ELSE /\ tasks' = [tasks EXCEPT ![f].pc = "done", ![f].retries = 0, ![f].threw = err,
                                    ![f].result = Caught(allFeeds[f], err)]
          /\ settled' = Append(settled, f)
  /\ UNCHANGED <<fetchFullText, mainPc, feedResults, heap, allItems, index, extracted,
                 failed, completed, workers, claimed, progress,
                 categoryNames, files, fetchVars, extractVars, pureVars>>

\* The 1000 ms timer of fetchWithRetry fired: fetchWithRetry(url, retries - 1).
FeedBackoffDone(f) ==
  /\ tasks[f].pc = "backoff"
  /\ tasks' = [tasks EXCEPT ![f].pc = "fetch", ![f].retries = @ - 1]
  /\ UNCHANGED <<fetchFullText, settled, mainPc, feedResults, heap, allItems, index,
                 extracted, failed, completed, workers, claimed, progress,
                 categoryNames, files, fetchVars, extractVars, pureVars>>


(***************************************************************************)
(* Output assembly (slugify, lines 447-452; main, lines 533-601)           *)
(***************************************************************************)

\* .replace(/[äöü]/g, ...): ae, oe, ue.
Transliterate(c) ==
  CASE c = "ä" -> <<"a", "e">>
    [] c = "ö" -> <<"o", "e">>
    [] c = "ü" -> <<"u", "e">>
    [] OTHER -> <<c>>

\* [a-z0-9]
IsSlugChar(c) == c \in Digits \/ \E k \in 1..26 : LowerCase[k] = c

\* .replace(/[^a-z0-9]+/g, '-'): each run of other characters becomes one '-'.
RECURSIVE Hyphenate(_, _)
Hyphenate(cs, inRun) ==
  IF cs = << >> THEN << >>
  ELSE IF IsSlugChar(Head(cs)) THEN <<Head(cs)>> \o Hyphenate(Tail(cs), FALSE)
       ELSE IF inRun THEN Hyphenate(Tail(cs), TRUE)
            ELSE <<"-">> \o Hyphenate(Tail(cs), TRUE)

\* .replace(/^-|-$/g, ''): one leading and one trailing '-' are removed.
TrimHyphens(cs) ==
  LET a == IF cs # << >> /\ Head(cs) = "-" THEN Tail(cs) ELSE cs
  IN IF a # << >> /\ a[Len(a)] = "-" THEN SubSeq(a, 1, Len(a) - 1) ELSE a

RECURSIVE FlatMapChars(_)
FlatMapChars(cs) ==
  IF cs = << >> THEN << >>
  ELSE Transliterate(toLowerCase(Head(cs))) \o FlatMapChars(Tail(cs))

\* slugify(str)
slugify(str) == Join(TrimHyphens(Hyphenate(FlatMapChars(Chars(str)), FALSE)))

\* `${slugify(categoryName)}-${feedSlug}.json`
FeedFile(feed) == slugify(feed.categoryName) \o "-" \o slugify(feed.title) \o ".json"

\* path.join(feedsDir, feedFile)
ShardPath(feedFile) == "data/feeds/" \o feedFile
IndexPath == "data/feeds-index.json"
LegacyPath == "data/feeds.json"

\* new Date().toISOString() at line 535.
Now == "2026-01-01T00:00:00.000Z"

\* ItemHeader that carries the item's body along.
ItemHeaderWithBody(item) ==
  [id |-> item.id, title |-> item.title, date |-> item.date, link |-> item.link,
   hnCommentsUrl |-> item.hnCommentsUrl, isHackerNews |-> item.isHackerNews,
   isGoogleNews |-> item.isGoogleNews, content |-> item.content]

\* Lines 561-569: the header of one item.
ItemHeader(item) ==
  [id |-> item.id, title |-> item.title, date |-> item.date, link |-> item.link,
   hnCommentsUrl |-> item.hnCommentsUrl, isHackerNews |-> item.isHackerNews,
   isGoogleNews |-> item.isGoogleNews]

\* result.items, as objects.
ItemsOf(result, objs) == [j \in 1..Len(result.items) |-> objs[result.items[j]]]

\* Lines 553-570: the index entry of one feed.
IndexEntry(result, objs) ==
  [title |-> result.feed.title,
   url |-> result.feed.url,
   file |-> FeedFile(result.feed),
   count |-> Len(result.items),
   unreadCount |-> Len(result.items),
   error |-> result.error,
   items |-> [j \in 1..Len(result.items) |-> ItemHeader(objs[result.items[j]])]]

\* Lines 573-580: the write of one feed's shard.
ShardWrite(result, objs) ==
  [name |-> ShardPath(FeedFile(result.feed)),
   data |-> [title |-> result.feed.title, items |-> ItemsOf(result, objs)]]

\* Lines 541-546 and 553: the entry goes to the first category of that name, a
\* new category being pushed when there is none.
PushEntry(cats, name, entry) ==
  IF \E c \in 1..Len(cats) : cats[c].name = name
  THEN LET c == CHOOSE c \in 1..Len(cats) :
                  cats[c].name = name /\ \A d \in 1..(c - 1) : cats[d].name # name
       IN [cats EXCEPT ![c].feeds = Append(@, entry)]
  ELSE Append(cats, [name |-> name, feeds |-> <<entry>>])

\* FeedLoop that gives a failed feed no index entry.
RECURSIVE FeedLoopSkipFailed(_, _, _, _)
FeedLoopSkipFailed(results, objs, k, acc) ==
  IF k > Len(results) THEN acc
  ELSE FeedLoopSkipFailed(results, objs, k + 1,
         [categories |-> IF results[k].error # Null THEN acc.categories
                         ELSE PushEntry(acc.categories, results[k].feed.categoryName,
                                        IndexEntry(results[k], objs)),
          writes |-> Append(acc.writes, ShardWrite(results[k], objs))])

\* The loop of lines 540-581 from result k on: the categories of the index and
\* the shard writes, in order.
RECURSIVE FeedLoop(_, _, _, _)
FeedLoop(results, objs, k, acc) ==
  IF k > Len(results) THEN acc
  ELSE FeedLoop(results, objs, k + 1,
                [categories |-> PushEntry(acc.categories, results[k].feed.categoryName,
                                          IndexEntry(results[k], objs)),
                 writes |-> Append(acc.writes, ShardWrite(results[k], objs))])

\* Lines 591-598: the legacy feeds of one category name.
RECURSIVE LegacyFeeds(_, _, _, _)
LegacyFeeds(results, objs, name, k) ==
  IF k > Len(results) THEN << >>
  ELSE (IF results[k].feed.categoryName = name
        THEN <<[title |-> results[k].feed.title, url |-> results[k].feed.url,
                items |-> ItemsOf(results[k], objs), error |-> results[k].error]>>
        ELSE << >>) \o LegacyFeeds(results, objs, name, k + 1)

\* LegacyOutput with a timestamp of its own, taken when the legacy file is built.
LegacyOutputOwnTimestamp(results, objs, names) ==
  [lastUpdated |-> "2026-01-01T00:00:00.001Z",
   categories |-> [c \in 1..Len(names) |->
                     [name |-> names[c], feeds |-> LegacyFeeds(results, objs, names[c], 1)]]]

\* Lines 587-600.
LegacyOutput(results, objs, names) ==
  [lastUpdated |-> Now,
   categories |-> [c \in 1..Len(names) |->
                     [name |-> names[c], feeds |-> LegacyFeeds(results, objs, names[c], 1)]]]

\* WriteOutput with the index written before the shards.
WriteOutputIndexFirst(results, objs, names) ==
  LET loop == FeedLoop(results, objs, 1, [categories |-> << >>, writes |-> << >>])
  IN <<[name |-> IndexPath,
        data |-> [lastUpdated |-> Now, categories |-> loop.categories]]>>
     \o loop.writes
     \o <<[name |-> LegacyPath, data |-> LegacyOutput(results, objs, names)]>>

\* Lines 534-601: every write of the output step, in order.
WriteOutput(results, objs, names) ==
  LET loop == FeedLoop(results, objs, 1, [categories |-> << >>, writes |-> << >>])
  IN loop.writes
     \o <<[name |-> IndexPath,
           data |-> [lastUpdated |-> Now, categories |-> loop.categories]]>>
     \o <<[name |-> LegacyPath, data |-> LegacyOutput(results, objs, names)]>>


(***************************************************************************)
(* Phase B: the pool of processNext workers (main, lines 485-531)          *)
(***************************************************************************)

\* A worker that left its while loop.
NoFrame == [pos |-> 0, pc |-> "return", articleUrl |-> ""]

\* PoolSize without the cap: one worker per item.
PoolSizeUncapped(n) == n

\* Math.min(concurrency, allItems.length)
PoolSize(n) == Min(concurrency, n)

\* Advance with the increment lost: the cursor stays where it was.
AdvanceStale(idx) == idx

\* index++ : the value of index after the claim of allItems[idx].
Advance(idx) == idx + 1

\* item.flag as a condition: an item without the flag has undefined, which is
\* falsy.
Flag(item, flag) == flag \in DOMAIN item /\ item[flag]

\* The first await of the loop body for the item at worklist position pos: the
\* redirect probe for an aggregator link of an aggregator feed, else the extraction.
Issue(pos, item) ==
  [pos |-> pos,
   pc |-> IF Flag(item, "isGoogleNews") /\ IsOnAggregator(item.link) THEN "probe"
          ELSE "extract",
   articleUrl |-> item.link]

\* RunWorker with a skip that forgets completed++.
RECURSIVE RunWorkerSkipUncounted(_, _, _, _)
RunWorkerSkipUncounted(idx, comp, items, objs) ==
  IF ~(idx < Len(items))
  THEN [index |-> idx, completed |-> comp, claims |-> << >>, frame |-> NoFrame]
  ELSE LET item == objs[items[idx + 1]] IN
       IF item.link = ""
       THEN LET rest == RunWorkerSkipUncounted(idx + 1, comp, items, objs)
            IN [rest EXCEPT !.claims = <<idx + 1>> \o @]
       ELSE [index |-> idx + 1, completed |-> comp, claims |-> <<idx + 1>>,
             frame |-> [pos |-> idx + 1,
                        pc |-> IF item.isGoogleNews /\ IsOnAggregator(item.link)
                               THEN "probe" ELSE "extract",
                        articleUrl |-> item.link]]

\* RunWorker without the skip of line 497: a link-less item gets its request.
RunWorkerNoSkip(idx, comp, items, objs) ==
  IF ~(idx < Len(items))
  THEN [index |-> idx, completed |-> comp, claims |-> << >>, frame |-> NoFrame]
  ELSE [index |-> Advance(idx), completed |-> comp, claims |-> <<idx + 1>>,
        frame |-> Issue(idx + 1, objs[items[idx + 1]])]

\* processNext from the loop test to its next await, or to its return: claim
\* allItems[index++], skip it when it has no link, else issue its first request.
\* idx and comp are index and completed on entry; pos = idx + 1 is the position
\* of allItems[idx] counted from 1.
RECURSIVE RunWorker(_, _, _, _)
RunWorker(idx, comp, items, objs) ==
  IF ~(idx < Len(items))
  THEN [index |-> idx, completed |-> comp, claims |-> << >>, frame |-> NoFrame]
  ELSE LET item == objs[items[idx + 1]] IN
       IF item.link = ""
       THEN LET rest == RunWorker(Advance(idx), comp + 1, items, objs)
            IN [rest EXCEPT !.claims = <<idx + 1>> \o @]
       ELSE [index |-> Advance(idx), completed |-> comp, claims |-> <<idx + 1>>,
             frame |-> Issue(idx + 1, item)]

AddFrame(bag, frame) == IF frame = NoFrame THEN bag ELSE bag (+) SetToBag({frame})

\* Array(n).fill().map(processNext): n workers started one after the other, each
\* running to its first await before the next one starts.
RECURSIVE StartWorkers(_, _, _, _)
StartWorkers(n, st, items, objs) ==
  IF n = 0 THEN st
  ELSE LET r == RunWorker(st.index, st.completed, items, objs)
       IN StartWorkers(n - 1,
                       [index |-> r.index, completed |-> r.completed,
                        claims |-> st.claims \o r.claims,
                        workers |-> AddFrame(st.workers, r.frame)],
                       items, objs)

RECURSIVE FlatMapItems(_, _)
FlatMapItems(results, k) ==
  IF k > Len(results) THEN << >>
  ELSE results[k].items \o FlatMapItems(results, k + 1)

\* AllSettled as a race: main resumes with the first task that settles.
AnySettled(ts) == \E f \in Feeds : ts[f].pc = "done"

\* Promise.all(feedPromises) is settled once every task is.
AllSettled(ts) == \A f \in Feeds : ts[f].pc = "done"

\* PromiseAll with the values in the order the tasks settled.
PromiseAllSettleOrder(ts, order) == [k \in 1..Len(order) |-> ts[order[k]].result]

\* Promise.all resolves with the tasks' values in the order of the array.
PromiseAll(ts, order) == [f \in Feeds |-> ts[f].result]

\* RunsPhaseB whatever the flag says.
RunsPhaseBAlways(flag) == TRUE

\* Line 485, if (config.fetchFullText).
RunsPhaseB(flag) == flag

\* main resumes after await Promise.all(feedPromises): with fetchFullText it
\* flattens the worklist and starts the pool, else it goes on to the output and
\* writes it.
FeedsAllDone ==
  /\ mainPc = "awaitFeeds"
  /\ AllSettled(tasks)
  /\ feedResults' = PromiseAll(tasks, settled)
  /\ IF RunsPhaseB(fetchFullText)
     THEN LET items == FlatMapItems(feedResults', 1)
              st == StartWorkers(PoolSize(Len(items)),
                                 [index |-> 0, completed |-> 0, claims |-> << >>,
                                  workers |-> EmptyBag],
                                 items, heap)
          IN /\ allItems' = items
             /\ index' = st.index
             /\ completed' = st.completed
             /\ claimed' = st.claims
             /\ workers' = st.workers
             /\ mainPc' = "awaitWorkers"
             /\ files' = files
     ELSE /\ mainPc' = "output"
          /\ files' = WriteOutput(feedResults', heap, categoryNames)
          /\ UNCHANGED <<allItems, index, completed, claimed, workers>>
  /\ UNCHANGED <<fetchFullText, tasks, settled, heap, extracted, failed, progress,
                 categoryNames, fetchVars, extractVars, pureVars>>

\* ProbeDone that uses the resolved URL for the extraction and leaves item.link
\* as it was.
ProbeDoneKeepsLink(fr, realUrl) ==
  /\ mainPc = "awaitWorkers"
  /\ BagIn(fr, workers)
  /\ fr.pc = "probe"
  /\ LET resolved == realUrl # "" /\ ~IsOnAggregator(realUrl)
         url == IF resolved THEN realUrl ELSE fr.articleUrl
     IN workers' = (workers (-) SetToBag({fr}))
                   (+) SetToBag({[fr EXCEPT !.pc = "extract", !.articleUrl = url]})
  /\ UNCHANGED <<fetchFullText, tasks, settled, mainPc, feedResults, heap, allItems, index,
                 extracted, failed, completed, claimed, progress,
                 categoryNames, files, fetchVars, extractVars, pureVars>>

\* Lines 503-506, what processNext does with the realUrl that
\* await followRedirect(item.link) resolved with: an off-aggregator URL
\* replaces articleUrl and item.link.
ProbeResumed(fr, realUrl) ==
  /\ mainPc = "awaitWorkers"
  /\ BagIn(fr, workers)
  /\ fr.pc = "probe"
  /\ LET resolved == realUrl # "" /\ ~IsOnAggregator(realUrl)
         url == IF resolved THEN realUrl ELSE fr.articleUrl
     IN /\ heap' = IF resolved THEN [heap EXCEPT ![allItems[fr.pos]].link = realUrl]
                   ELSE heap
        /\ workers' = (workers (-) SetToBag({fr}))
                      (+) SetToBag({[fr EXCEPT !.pc = "extract", !.articleUrl = url]})
  /\ UNCHANGED <<fetchFullText, tasks, settled, mainPc, feedResults, allItems, index,
                 extracted, failed, completed, claimed, progress,
                 categoryNames, files>>

\* await followRedirect(item.link) resolved with realUrl; then
\* extractArticleContent is called (its requests are not told apart here).
ProbeDone(fr, realUrl) ==
  /\ ProbeResumed(fr, realUrl)
  /\ UNCHANGED <<fetchVars, extractVars, pureVars>>

\* HasContent that takes whatever the extraction returned.
HasContentAlways(fullContent) == TRUE

\* Line 510, if (fullContent): neither null nor the empty string.
HasContent(fullContent) == fullContent # Null /\ fullContent # ""

\* Line 521: completed, just incremented, calls for a progress report.
Reports(comp, n) == comp % 10 = 0 \/ comp = n

\* ExtractDone that does not count an extraction that yielded nothing.
ExtractDoneUncounted(fr, fullContent) ==
  /\ mainPc = "awaitWorkers"
  /\ BagIn(fr, workers)
  /\ fr.pc = "extract"
  /\ LET got == HasContent(fullContent)
         objs == IF got THEN [heap EXCEPT ![allItems[fr.pos]].fullContent = fullContent]
                 ELSE heap
         r == RunWorker(index, completed + 1, allItems, objs)
     IN /\ heap' = objs
        /\ extracted' = IF got THEN extracted + 1 ELSE extracted
        /\ index' = r.index
        /\ completed' = r.completed
        /\ claimed' = claimed \o r.claims
        /\ workers' = AddFrame(workers (-) SetToBag({fr}), r.frame)
        /\ progress' = IF Reports(completed + 1, Len(allItems))
                       THEN Append(progress, completed + 1) ELSE progress
  /\ UNCHANGED <<fetchFullText, tasks, settled, mainPc, feedResults, allItems, failed,
                 categoryNames, files, fetchVars, extractVars, pureVars>>

\* ExtractDone of a worker that returns after its first extraction instead of
\* going round its loop.
ExtractDoneThenReturn(fr, fullContent) ==
  /\ mainPc = "awaitWorkers"
  /\ BagIn(fr, workers)
  /\ fr.pc = "extract"
  /\ LET got == HasContent(fullContent)
     IN /\ heap' = IF got THEN [heap EXCEPT ![allItems[fr.pos]].fullContent = fullContent]
                   ELSE heap
        /\ extracted' = IF got THEN extracted + 1 ELSE extracted
        /\ failed' = IF got THEN failed ELSE failed + 1
        /\ completed' = completed + 1
        /\ workers' = workers (-) SetToBag({fr})
        /\ progress' = IF Reports(completed + 1, Len(allItems))
                       THEN Append(progress, completed + 1) ELSE progress
  /\ UNCHANGED <<fetchFullText, tasks, settled, mainPc, feedResults, allItems, index, claimed,
                 categoryNames, files, fetchVars, extractVars, pureVars>>

\* await extractArticleContent(articleUrl, item.title) resolved with fullContent:
\* record it, count the item, report progress, and run the loop on to the next
\* await or the return.
ExtractDone(fr, fullContent) ==
  /\ mainPc = "awaitWorkers"
  /\ BagIn(fr, workers)
  /\ fr.pc = "extract"
  /\ LET got == HasContent(fullContent)
         objs == IF got THEN [heap EXCEPT ![allItems[fr.pos]].fullContent = fullContent]
                 ELSE heap
         r == RunWorker(index, completed + 1, allItems, objs)
     IN /\ heap' = objs
        /\ extracted' = IF got THEN extracted + 1 ELSE extracted
        /\ failed' = IF got THEN failed ELSE failed + 1
        /\ index' = r.index
        /\ completed' = r.completed
        /\ claimed' = claimed \o r.claims
        /\ workers' = AddFrame(workers (-) SetToBag({fr}), r.frame)
        /\ progress' = IF Reports(completed + 1, Len(allItems))
                       THEN Append(progress, completed + 1) ELSE progress
  /\ UNCHANGED <<fetchFullText, tasks, settled, mainPc, feedResults, allItems,
                 categoryNames, files, fetchVars, extractVars, pureVars>>

\* main resumes after await Promise.all of the workers and writes the output.
WorkersAllDone ==
  /\ mainPc = "awaitWorkers"
  /\ workers = EmptyBag
  /\ mainPc' = "output"
  /\ files' = WriteOutput(feedResults, heap, categoryNames)
  /\ UNCHANGED <<fetchFullText, tasks, settled, feedResults, heap, allItems, index,
                 extracted, failed, completed, workers, claimed, progress,
                 categoryNames, fetchVars, extractVars, pureVars>>


(***************************************************************************)
(* extractArticleContent, run by run (lines 308-347)                       *)
(***************************************************************************)

\* extractArticleContent(url, title = '', retries = 1)
DefaultExtractRetries == 1

\* No extractArticleContent call in progress. page is the page the last
\* fetchUrl(url) of the call resolved with.
NoExtract == [pc |-> "idle", retries |-> 0, log |-> << >>, value |-> Null, page |-> Null]

\* What a fetched page does to the steps of lines 312-337.
Pages == {"cookie wall", "breaks the DOM", "breaks Readability", "no article",
          "cookie wall text", "article", "text only", "too short", "short lines",
          "breaks the cleaner"}

\* A step that throws, and a return.
Throw(err) == [threw |-> TRUE, value |-> err]
Return(value) == [threw |-> FALSE, value |-> value]

\* isCookieWall(html) at line 312 and isCookieWall(article.textContent) at
\* line 332: one of cookiePatterns matches the page as fetched, or the text
\* Readability made of it.
IsCookieWallHtml(page) == page = "cookie wall"
IsCookieWallText(page) == page = "cookie wall text"

\* ExtractSteps that takes a cookie wall for a page that failed to load.
ExtractStepsCookieThrows(page, url) ==
  CASE IsCookieWallHtml(page)      -> Throw("cookie wall")
    [] page = "breaks the DOM"     -> Throw("JSDOM error")
    [] page = "breaks Readability" -> Throw("Readability error")
    [] page = "no article"         -> Return(Null)
    [] IsCookieWallText(page)      -> Throw("cookie wall")
    [] page = "article"            -> Return("<div>" \o url \o "</div>")
    [] page = "text only"          -> Return(Content(url))
    [] page = "too short"          -> Return(Null)
    [] page = "short lines"        -> Return("")
    [] page = "breaks the cleaner" -> Throw("TypeError")

\* Lines 312-337 on the page fetched from url: the value returned, or the
\* exception thrown into the catch block.
ExtractSteps(page, url) ==
  CASE IsCookieWallHtml(page)      -> Return(Null)
    [] page = "breaks the DOM"     -> Throw("JSDOM error")
    [] page = "breaks Readability" -> Throw("Readability error")
    [] page = "no article"         -> Return(Null)
    [] IsCookieWallText(page)      -> Return(Null)
    [] page = "article"            -> Return("<div>" \o url \o "</div>")
    [] page = "text only"          -> Return(Content(url))
    [] page = "too short"          -> Return(Null)
    [] page = "short lines"        -> Return("")
    [] page = "breaks the cleaner" -> Throw("TypeError")

\* ExtractShouldRetry that also retries when no retries are left.
ExtractShouldRetryAtZero(retries) == retries >= 0

\* Line 341: the catch block retries while retries > 0.
ExtractShouldRetry(retries) == retries > 0

\* ExtractCatch that rethrows the last exception, as fetchWithRetry does.
ExtractCatchRethrow(call, err) ==
  LET log == Append(call.log, Throw(err))
  IN IF ExtractShouldRetry(call.retries)
     THEN [call EXCEPT !.pc = "backoff", !.log = log]
     ELSE [call EXCEPT !.pc = "rejected", !.log = log, !.value = err]

\* Lines 340-346: the catch block starts the 500 ms wait when retries are
\* left, else the call returns null.
ExtractCatch(call, err) ==
  LET log == Append(call.log, Throw(err))
  IN IF ExtractShouldRetry(call.retries)
     THEN [call EXCEPT !.pc = "backoff", !.log = log]
     ELSE [call EXCEPT !.pc = "resolved", !.log = log, !.value = Null]

\* The frame of the worker that awaits the extraction.
ExtractingFrames == {fr \in BagToSet(workers) : fr.pc = "extract"}

\* await fetchUrl(url) resolved with a page: the steps run to a return or into
\* the catch block.
ExtractFetched(page) ==
  /\ ex.pc = "fetch"
  /\ \E fr \in ExtractingFrames :
       LET out == ExtractSteps(page, fr.articleUrl)
           call == [ex EXCEPT !.page = page]
       IN ex' = IF out.threw THEN ExtractCatch(call, out.value)
                ELSE [call EXCEPT !.pc = "resolved", !.log = Append(@, out),
                                  !.value = out.value]
  /\ UNCHANGED <<pipeVars, fetchVars, pureVars>>

\* await fetchUrl(url) rejected with err.
ExtractFetchFailed(err) ==
  /\ ex.pc = "fetch"
  /\ ex' = ExtractCatch(ex, err)
  /\ UNCHANGED <<pipeVars, fetchVars, pureVars>>

\* The 500 ms timer fired: extractArticleContent(url, title, retries - 1).
ExtractBackoffDone ==
  /\ ex.pc = "backoff"
  /\ ex' = [ex EXCEPT !.pc = "fetch", !.retries = @ - 1]
  /\ UNCHANGED <<pipeVars, fetchVars, pureVars>>

\* The call settled and processNext resumes: with the value returned, or, had
\* the call rejected, in its own catch block (lines 516-518), which counts the
\* item as failed like a null does.
ExtractSettled ==
  /\ ex.pc \in {"resolved", "rejected"}
  /\ \E fr \in ExtractingFrames :
       ExtractDone(fr, IF ex.pc = "resolved" THEN ex.value ELSE Null)


(***************************************************************************)
(* fetchUrl and fetchWithRetry, request by request                         *)
(***************************************************************************)

\* fetchUrl(url, maxRedirects = 5)
DefaultMaxRedirects == 5

\* fetchWithRetry(url, retries = 1)
DefaultRetries == 1

\* The status codes a server of the model answers with.
Statuses == {200, 300, 399, 400}

HttpError(status) == "HTTP " \o ToString(status)
TooManyRedirects == "Too many redirects"

\* The text of the response to the n-th request of attempt a.
Body(a, n) == "body " \o ToString(a) \o "." \o ToString(n)

\* No fetchUrl call in progress.
NoCall == [state |-> "idle", maxRedirects |-> 0, requests |-> 0, value |-> Null]

\* Exhausted one call late: a request is still issued with a budget of 0.
ExhaustedLate(maxRedirects) == maxRedirects < 0

\* Exhausted one call early: no request is issued with a budget of 1.
ExhaustedEarly(maxRedirects) == maxRedirects <= 1

\* Line 256: the guard every fetchUrl call starts with.
Exhausted(maxRedirects) == maxRedirects <= 0

\* fetchUrl(url, maxRedirects) up to its return: it rejects at once when the
\* redirect budget is used up, else it issues the request.  call is the chain the
\* call belongs to (a redirect settles the outer promise as the inner one).
fetchUrl(call, maxRedirects) ==
  IF Exhausted(maxRedirects)
  THEN [call EXCEPT !.state = "rejected", !.maxRedirects = maxRedirects,
                    !.value = TooManyRedirects]
  ELSE [call EXCEPT !.state = "pending", !.maxRedirects = maxRedirects,
                    !.requests = @ + 1]

\* Line 267: the response is a redirect to follow.
IsRedirect(status, hasLocation) == status >= 300 /\ status < 400 /\ hasLocation

\* IsHttpError that lets status 400 through.
IsHttpErrorAbove(status) == status > 400

\* Line 273: the response is an HTTP error.
IsHttpError(status) == status >= 400

\* The response callback of client.get (lines 266-290), the body included.
OnResponse(call, status, hasLocation, body) ==
  IF IsRedirect(status, hasLocation) THEN fetchUrl(call, call.maxRedirects - 1)
  ELSE IF IsHttpError(status)
       THEN [call EXCEPT !.state = "rejected", !.value = HttpError(status)]
       ELSE [call EXCEPT !.state = "resolved", !.value = body]

Respond(status, hasLocation) ==
  /\ fu.state = "pending"
  /\ fu' = OnResponse(fu, status, hasLocation, Body(fw.attempts, fu.requests))
  /\ net' = Append(net, [kind |-> "response", status |-> status, location |-> hasLocation])
  /\ sent' = sent + (fu'.requests - fu.requests)
  /\ UNCHANGED <<fw, rd, pipeVars, extractVars, pureVars>>

\* req.on('error', reject)
RequestError ==
  /\ fu.state = "pending"
  /\ fu' = [fu EXCEPT !.state = "rejected", !.value = "ECONNRESET"]
  /\ net' = Append(net, [kind |-> "error", status |-> 0, location |-> FALSE])
  /\ UNCHANGED <<fw, sent, rd, pipeVars, extractVars, pureVars>>

\* req.on('timeout', ...)
RequestTimeout ==
  /\ fu.state = "pending"
  /\ fu' = [fu EXCEPT !.state = "rejected", !.value = "Timeout"]
  /\ net' = Append(net, [kind |-> "timeout", status |-> 0, location |-> FALSE])
  /\ UNCHANGED <<fw, sent, rd, pipeVars, extractVars, pureVars>>

\* fetchWithRetry resumes after await fetchUrl(url): return the text, or, in the
\* catch block, start the 1000 ms backoff when retries are left, else rethrow.
RetrySettled ==
  /\ fw.pc = "fetch"
  /\ fu.state \in {"resolved", "rejected"}
  /\ fw' = IF fu.state = "resolved"
           THEN [fw EXCEPT !.pc = "returned", !.value = fu.value]
           ELSE IF ShouldRetry(fw.retries)
                THEN [fw EXCEPT !.pc = "backoff", !.firstError = fu.value]
                ELSE [fw EXCEPT !.pc = "threw", !.value = fu.value]
  /\ UNCHANGED <<fu, net, sent, rd, pipeVars, extractVars, pureVars>>

\* The backoff timer fired: fetchWithRetry(url, retries - 1), a new fetchUrl(url).
RetryBackoffDone ==
  /\ fw.pc = "backoff"
  /\ fw' = [fw EXCEPT !.pc = "fetch", !.retries = @ - 1, !.attempts = @ + 1]
  /\ fu' = fetchUrl(NoCall, DefaultMaxRedirects)
  /\ net' = << >>
  /\ sent' = sent + fu'.requests
  /\ UNCHANGED <<rd, pipeVars, extractVars, pureVars>>

(***************************************************************************)
(* followRedirect, request by request (lines 211-240)                      *)
(***************************************************************************)

\* followRedirect(url, maxRedirects = 3)
DefaultProbeRedirects == 3

\* The Location headers a server of the model answers a probe with: none, an
\* absolute aggregator URL, a path on the same host, the publisher's URL.
RelativeLocations == {"/articles/1"}
Locations == {"", "https://news.google.com/articles/1", "https://pub.example/real"}
               \cup RelativeLocations

\* new URL(url).origin
Origin(url) == IF IsOnAggregator(url) THEN "https://news.google.com" ELSE "https://pub.example"

\* Lines 223-225: an absolute Location as it is, else resolved against url.
Href(location, url) ==
  IF location \in RelativeLocations THEN Origin(url) \o location ELSE location

\* No followRedirect call in progress.  last is how the latest request of the
\* call ended.
NoEvent == [kind |-> "none", status |-> 0, location |-> ""]
NoProbe == [state |-> "idle", url |-> "", maxRedirects |-> 0, requests |-> 0,
            value |-> Null, last |-> NoEvent]

\* ProbeExhausted one call late: a request is still issued with a budget of 0.
ProbeExhaustedLate(maxRedirects) == maxRedirects < 0

\* Line 213: the guard every followRedirect call starts with.
ProbeExhausted(maxRedirects) == maxRedirects <= 0

\* followRedirect(url, maxRedirects) up to its return: it resolves with url
\* when the budget is used up, else it issues the request.  call is the chain
\* the call belongs to (the inner promise resolves the outer one).
followRedirect(call, url, maxRedirects) ==
  IF ProbeExhausted(maxRedirects)
  THEN [call EXCEPT !.state = "resolved", !.url = url, !.maxRedirects = maxRedirects,
                    !.value = url]
  ELSE [call EXCEPT !.state = "pending", !.url = url, !.maxRedirects = maxRedirects,
                    !.requests = @ + 1]

\* The response callback (lines 222-234): a redirect to the aggregator is
\* followed, a redirect elsewhere resolves with its target, any other response
\* resolves with url.
OnProbeResponse(call, status, location) ==
  IF IsRedirect(status, location # "")
  THEN LET redirectUrl == Href(location, call.url)
       IN IF IsOnAggregator(redirectUrl)
          THEN followRedirect(call, redirectUrl, call.maxRedirects - 1)
          ELSE [call EXCEPT !.state = "resolved", !.value = redirectUrl]
  ELSE [call EXCEPT !.state = "resolved", !.value = call.url]

RedirectRespond(status, location) ==
  /\ rd.state = "pending"
  /\ rd' = [OnProbeResponse(rd, status, location)
              EXCEPT !.last = [kind |-> "response", status |-> status,
                               location |-> location]]
  /\ sent' = sent + (rd'.requests - rd.requests)
  /\ UNCHANGED <<fw, fu, net, pipeVars, extractVars, pureVars>>

\* req.on('error', () => resolve(url))
RedirectError ==
  /\ rd.state = "pending"
  /\ rd' = [rd EXCEPT !.state = "resolved", !.value = rd.url,
                      !.last = [NoEvent EXCEPT !.kind = "error"]]
  /\ UNCHANGED <<fw, fu, net, sent, pipeVars, extractVars, pureVars>>

\* req.on('timeout', ...): the request is destroyed, then resolve(url); the
\* 'error' event that follows resolves a promise that is resolved already.
RedirectTimeout ==
  /\ rd.state = "pending"
  /\ rd' = [rd EXCEPT !.state = "resolved", !.value = rd.url,
                      !.last = [NoEvent EXCEPT !.kind = "timeout"]]
  /\ UNCHANGED <<fw, fu, net, sent, pipeVars, extractVars, pureVars>>

\* processNext resumes after await followRedirect(item.link) and calls
\* extractArticleContent(articleUrl, item.title), whose first request goes out.
RedirectSettled ==
  /\ rd.state = "resolved"
  /\ \E fr \in BagToSet(workers) : ProbeResumed(fr, rd.value)
  /\ rd' = NoProbe
  /\ ex' = [NoExtract EXCEPT !.pc = "fetch", !.retries = DefaultExtractRetries]
  /\ fu' = fetchUrl(NoCall, DefaultMaxRedirects)
  /\ net' = << >>
  /\ sent' = sent + fu'.requests
  /\ UNCHANGED <<fw, pureVars>>

\* extractArticleContent resumes after await fetchUrl(url), which resolved.
ArticleFetched(page) ==
  /\ fu.state = "resolved"
  /\ ExtractFetched(page)

\* extractArticleContent resumes in its catch block: fetchUrl(url) rejected.
ArticleFetchFailed ==
  /\ fu.state = "rejected"
  /\ ExtractFetchFailed(fu.value)

\* The 500 ms timer fired: extractArticleContent(url, title, retries - 1),
\* whose first request goes out.
ArticleBackoffDone ==
  /\ ex.pc = "backoff"
  /\ fu.state \in {"resolved", "rejected"}
  /\ ex' = [ex EXCEPT !.pc = "fetch", !.retries = @ - 1]
  /\ fu' = fetchUrl(NoCall, DefaultMaxRedirects)
  /\ net' = << >>
  /\ sent' = sent + fu'.requests
  /\ UNCHANGED <<fw, rd, pipeVars, pureVars>>

(***************************************************************************)
(* Specifications                                                          *)
(***************************************************************************)

\* main() up to its first await: every feed's request is out.
PipeInit ==
  /\ tasks = [f \in Feeds |-> [pc |-> "fetch", retries |-> DefaultRetries,
                               threw |-> Null, result |-> NoResult]]
  /\ settled = << >>
  /\ mainPc = "awaitFeeds"
  /\ feedResults = << >>
  /\ heap = << >>
  /\ allItems = << >>
  /\ index = 0 /\ extracted = 0 /\ failed = 0 /\ completed = 0
  /\ workers = EmptyBag
  /\ claimed = << >>
  /\ progress = << >>
  /\ categoryNames = [c \in 1..Len(config.categories) |-> config.categories[c].name]
  /\ files = << >>

Init ==
  /\ fetchFullText \in BOOLEAN
  /\ PipeInit
  /\ fw = [pc |-> "none", retries |-> 0, attempts |-> 0, firstError |-> Null, value |-> Null]
  /\ fu = NoCall
  /\ net = << >>
  /\ sent = 0
  /\ rd = NoProbe
  /\ ex = NoExtract
  /\ pure = NoFunction

Next ==
  \/ \E f \in Feeds : FeedFetched(f, RemoteDoc(f))
  \/ \E f \in Feeds : FeedFetched(f, Malformed)
  \/ \E f \in Feeds, err \in FetchErrors : FeedFetchFailed(f, err)
  \/ \E f \in Feeds : FeedBackoffDone(f)
  \/ FeedsAllDone
  \/ \E fr \in BagToSet(workers) : \E u \in ProbeOutcomes(fr.articleUrl) : ProbeDone(fr, u)
  \/ \E fr \in BagToSet(workers) :
       \E c \in ExtractOutcomes(allItems[fr.pos], fr.articleUrl) : ExtractDone(fr, c)
  \/ WorkersAllDone

Spec == Init /\ [][Next]_vars

\* Something is pending: a request of a Phase A task or its backoff timer, the
\* await of a worker (a redirect probe or an extraction), or a continuation of
\* main whose Promise.all has settled. It is the enabling condition of Next.
Pending ==
  \/ \E f \in Feeds : tasks[f].pc \in {"fetch", "backoff"}
  \/ mainPc = "awaitFeeds" /\ AllSettled(tasks)
  \/ mainPc = "awaitWorkers" /\ \E fr \in BagToSet(workers) : fr.pc \in {"probe", "extract"}
  \/ mainPc = "awaitWorkers" /\ workers = EmptyBag

\* The run under the assumption that every outbound request settles: a step of
\* Next is the settling of a pending request (a response, an error or the
\* timeout), the firing of a backoff timer, or a continuation the event loop
\* has ready, so a run does not stop while something is pending. This is
\* WF_vars(Next) with the enabling condition of Next written out.
LiveSpec == Spec /\ ([]<>(~Pending) \/ []<><<Next>>_vars)

\* fetchWithRetry(url) up to its first await: the first request is out.
InitFetch ==
  /\ fetchFullText = FALSE
  /\ PipeInit
  /\ fw = [pc |-> "fetch", retries |-> DefaultRetries, attempts |-> 1,
           firstError |-> Null, value |-> Null]
  /\ fu = fetchUrl(NoCall, DefaultMaxRedirects)
  /\ net = << >>
  /\ sent = 1
  /\ rd = NoProbe
  /\ ex = NoExtract
  /\ pure = NoFunction

NextFetch ==
  \/ \E status \in Statuses, hasLocation \in BOOLEAN : Respond(status, hasLocation)
  \/ RequestError
  \/ RequestTimeout
  \/ RetrySettled
  \/ RetryBackoffDone

SpecFetch == InitFetch /\ [][NextFetch]_vars

\* The run in which the first feed alone was fetched, at the point where the
\* one worker of the pool has probed its item's link and called
\* extractArticleContent, whose fetchUrl request is out.
InitExtract ==
  /\ fetchFullText = TRUE
  /\ tasks = [f \in Feeds |->
               [pc |-> "done", retries |-> 0,
                threw |-> IF f = 1 THEN Null ELSE "Timeout",
                result |-> IF f = 1
                           THEN Returned(allFeeds[f], Refs(f, MaxArticles(allFeeds[f])))
                           ELSE Caught(allFeeds[f], "Timeout")]]
  /\ settled = <<1, 2, 3>>
  /\ mainPc = "awaitWorkers"
  /\ feedResults = PromiseAll(tasks, settled)
  /\ allItems = FlatMapItems(feedResults, 1)
  /\ \E realUrl \in ProbeOutcomes(RawLink(1, 1)) :
       LET parsed == parseRSS(RemoteDoc(1), allFeeds[1].title, MaxArticles(allFeeds[1]))
           resolved == realUrl # "" /\ ~IsOnAggregator(realUrl)
           url == IF resolved THEN realUrl ELSE parsed[1].link
       IN /\ heap = [r \in {<<1, 1>>} |-> [parsed[1] EXCEPT !.link = url]]
          /\ workers = SetToBag({[pos |-> 1, pc |-> "extract", articleUrl |-> url]})
  /\ index = 1 /\ extracted = 0 /\ failed = 0 /\ completed = 0
  /\ claimed = <<1>>
  /\ progress = << >>
  /\ categoryNames = [c \in 1..Len(config.categories) |-> config.categories[c].name]
  /\ files = << >>
  /\ fw = [pc |-> "none", retries |-> 0, attempts |-> 0, firstError |-> Null, value |-> Null]
  /\ fu = NoCall
  /\ net = << >>
  /\ sent = 0
  /\ rd = NoProbe
  /\ ex = [NoExtract EXCEPT !.pc = "fetch", !.retries = DefaultExtractRetries]
  /\ pure = NoFunction

NextExtract ==
  \/ \E page \in Pages : ExtractFetched(page)
  \/ \E err \in FetchErrors : ExtractFetchFailed(err)
  \/ ExtractBackoffDone
  \/ ExtractSettled
  \/ WorkersAllDone

SpecExtract == InitExtract /\ [][NextExtract]_vars

\* The run in which the first feed alone was fetched, at the point where the
\* one worker of the pool has claimed its item and called followRedirect,
\* whose first request is out.
InitItem ==
  /\ fetchFullText = TRUE
  /\ tasks = [f \in Feeds |->
               [pc |-> "done", retries |-> 0,
                threw |-> IF f = 1 THEN Null ELSE "Timeout",
                result |-> IF f = 1
                           THEN Returned(allFeeds[f], Refs(f, MaxArticles(allFeeds[f])))
                           ELSE Caught(allFeeds[f], "Timeout")]]
  /\ settled = <<1, 2, 3>>
  /\ mainPc = "awaitWorkers"
  /\ feedResults = PromiseAll(tasks, settled)
  /\ allItems = FlatMapItems(feedResults, 1)
  /\ LET parsed == parseRSS(RemoteDoc(1), allFeeds[1].title, MaxArticles(allFeeds[1]))
     IN /\ heap = [r \in {<<1, 1>>} |-> parsed[1]]
        /\ workers = SetToBag({Issue(1, parsed[1])})
        /\ rd = followRedirect(NoProbe, parsed[1].link, DefaultProbeRedirects)
  /\ index = 1 /\ extracted = 0 /\ failed = 0 /\ completed = 0
  /\ claimed = <<1>>
  /\ progress = << >>
  /\ categoryNames = [c \in 1..Len(config.categories) |-> config.categories[c].name]
  /\ files = << >>
  /\ fw = [pc |-> "none", retries |-> 0, attempts |-> 0, firstError |-> Null, value |-> Null]
  /\ fu = NoCall
  /\ net = << >>
  /\ sent = 1
  /\ ex = NoExtract
  /\ pure = NoFunction

\* One unit of work, request by request: a feed of Phase A (fetchWithRetry)
\* or an aggregator item of Phase B (followRedirect, then
\* extractArticleContent).  A server answers 200, a redirect or an error.
RequestStatuses == {200, 300, 400}

InitRequests ==
  \/ InitFetch
  \/ InitItem

NextRequests ==
  \/ \E status \in RequestStatuses, hasLocation \in BOOLEAN : Respond(status, hasLocation)
  \/ RequestError
  \/ RequestTimeout
  \/ RetrySettled
  \/ RetryBackoffDone
  \/ \E status \in RequestStatuses, location \in Locations : RedirectRespond(status, location)
  \/ RedirectError
  \/ RedirectTimeout
  \/ RedirectSettled
  \/ \E page \in Pages : ArticleFetched(page)
  \/ ArticleFetchFailed
  \/ ArticleBackoffDone
  \/ ExtractSettled
  \/ WorkersAllDone

SpecRequests == InitRequests /\ [][NextRequests]_vars

\* What the remote side answers, fixed for a run: per feed, how its first
\* request ends and, after a failure, how the second one ends; where the
\* aggregator's link redirects to ("" is no redirect); whether the
\* pages of the first FlakyPages entries of the feeds yield an article.  At
\* most one feed answers with something else than its document at once.
FeedScripts == {<<"doc">>, <<"malformed">>, <<"Timeout", "doc">>, <<"Timeout", "HTTP 404">>}
ProbeScripts == {"", "https://news.google.com/articles/1", "https://pub.example/real"}

\* followRedirect(url) and extractArticleContent(url) against that remote side.
RemoteRealUrl(url) == IF pure.probe = "" THEN url ELSE pure.probe
RemoteContent(ref, url) ==
  IF pure.extractable /\ ref[2] <= FlakyPages THEN Content(url) ELSE Null

\* main() up to its first await, against a remote side whose answers are fixed.
InitSchedule ==
  /\ fetchFullText \in BOOLEAN
  /\ PipeInit
  /\ fw = [pc |-> "none", retries |-> 0, attempts |-> 0, firstError |-> Null, value |-> Null]
  /\ fu = NoCall
  /\ net = << >>
  /\ sent = 0
  /\ rd = NoProbe
  /\ ex = NoExtract
  /\ \E g \in Feeds, script \in FeedScripts, probe \in ProbeScripts,
        extractable \in BOOLEAN :
       pure = [fn |-> "remote",
               feed |-> [f \in Feeds |-> IF f = g THEN script ELSE <<"doc">>],
               probe |-> probe, extractable |-> extractable]

\* The request of feed f's task ends as the remote side has it.
RemoteFeedSettled(f) ==
  /\ tasks[f].pc = "fetch"
  /\ LET answer == pure.feed[f][DefaultRetries - tasks[f].retries + 1]
     IN CASE answer = "doc"       -> FeedFetched(f, RemoteDoc(f))
          [] answer = "malformed" -> FeedFetched(f, Malformed)
          [] OTHER                -> FeedFetchFailed(f, answer)

\* The await of a worker ends as the remote side has it.
RemoteProbeSettled(fr) == ProbeDone(fr, RemoteRealUrl(fr.articleUrl))
RemoteExtractSettled(fr) == ExtractDone(fr, RemoteContent(allItems[fr.pos], fr.articleUrl))

\* The run against a fixed remote side: every completion order of the Phase A
\* tasks and every interleaving of the Phase B workers.
NextSchedule ==
  \/ \E f \in Feeds : RemoteFeedSettled(f)
  \/ \E f \in Feeds : FeedBackoffDone(f)
  \/ FeedsAllDone
  \/ \E fr \in BagToSet(workers) : RemoteProbeSettled(fr)
  \/ \E fr \in BagToSet(workers) : RemoteExtractSettled(fr)
  \/ WorkersAllDone

SpecSchedule == InitSchedule /\ [][NextSchedule]_vars

\* The longest document of SpecWorklist.
MaxWorklist == 4

\* A document of the third feed with n entries, the j-th with a link iff linked[j].
WorklistDoc(n, linked) ==
  RssDoc(Many([j \in 1..n |-> [RawEntry(3, j) EXCEPT !.link = IF linked[j] THEN RawLink(3, j)
                                                                  ELSE ""]]))

\* The run in which the third feed alone was fetched, with a document whose
\* entries have a link or not, at the point where every task has settled.
InitWorklist ==
  /\ fetchFullText = TRUE
  /\ \E n \in 1..MaxWorklist : \E linked \in [1..n -> BOOLEAN] :
       LET items == parseRSS(WorklistDoc(n, linked), allFeeds[3].title,
                             MaxArticles(allFeeds[3]))
       IN /\ tasks = [f \in Feeds |->
                        [pc |-> "done", retries |-> 0,
                         threw |-> IF f = 3 THEN Null ELSE "Timeout",
                         result |-> IF f = 3
                                    THEN Returned(allFeeds[f], Refs(f, Len(items)))
                                    ELSE Caught(allFeeds[f], "Timeout")]]
          /\ heap = [r \in {<<3, j>> : j \in 1..Len(items)} |-> items[r[2]]]
  /\ settled = <<1, 2, 3>>
  /\ mainPc = "awaitFeeds"
  /\ feedResults = << >>
  /\ allItems = << >>
  /\ index = 0 /\ extracted = 0 /\ failed = 0 /\ completed = 0
  /\ workers = EmptyBag
  /\ claimed = << >>
  /\ progress = << >>
  /\ categoryNames = [c \in 1..Len(config.categories) |-> config.categories[c].name]
  /\ files = << >>
  /\ fw = [pc |-> "none", retries |-> 0, attempts |-> 0, firstError |-> Null, value |-> Null]
  /\ fu = NoCall
  /\ net = << >>
  /\ sent = 0
  /\ rd = NoProbe
  /\ ex = NoExtract
  /\ pure = NoFunction

NextWorklist ==
  \/ FeedsAllDone
  \/ \E fr \in BagToSet(workers) :
       \E c \in ExtractOutcomes(allItems[fr.pos], fr.articleUrl) : ExtractDone(fr, c)
  \/ WorkersAllDone

SpecWorklist == InitWorklist /\ [][NextWorklist]_vars

\* The most items a feed of SpecOutput delivers.
MaxShardItems == 1

\* The category names and feed titles of the configurations of SpecOutput.
OutCategories == {"A", "A B"}
OutTitles == {"A B", "a-b", "B C", "C", "Ü!", "ue"}

\* The configured feed at position f, as main flattens it (lines 457-462).
OutFeed(f, categoryName, title) ==
  [title |-> title, url |-> "https://feed.example/" \o ToString(f),
   articlesPerFeed |-> 0, categoryName |-> categoryName]

\* The items the task of feed f makes of a document of n entries.
OutItems(feed, f, n) ==
  parseRSS(RssDoc(Many([j \in 1..n |-> RawEntry(f, j)])), feed.title, MaxArticles(feed))

\* config.categories by name, for feeds in this order: consecutive feeds of one
\* name are the feeds of one category.
RECURSIVE CategoriesOf(_, _)
CategoriesOf(names, k) ==
  IF k > Len(names) THEN << >>
  ELSE (IF k > 1 /\ names[k - 1] = names[k] THEN << >> ELSE <<names[k]>>)
       \o CategoriesOf(names, k + 1)

\* A run without fetchFullText over a configuration of as many feeds, of any of
\* the categories and titles above, at the point where every task has settled:
\* a feed delivered up to MaxShardItems items, or it failed.
InitOutput ==
  /\ fetchFullText = FALSE
  /\ \E cat \in [Feeds -> OutCategories], title \in [Feeds -> OutTitles],
        n \in [Feeds -> 0..MaxShardItems] :
       /\ tasks = [f \in Feeds |->
                     [pc |-> "done", retries |-> 0,
                      threw |-> IF n[f] > 0 THEN Null ELSE "Timeout",
                      result |-> IF n[f] > 0
                                 THEN Returned(OutFeed(f, cat[f], title[f]), Refs(f, n[f]))
                                 ELSE Caught(OutFeed(f, cat[f], title[f]), "Timeout")]]
       /\ heap = [r \in {ref \in Feeds \X (1..MaxShardItems) : ref[2] <= n[ref[1]]} |->
                    OutItems(OutFeed(r[1], cat[r[1]], title[r[1]]), r[1], n[r[1]])[r[2]]]
       /\ categoryNames = CategoriesOf([f \in Feeds |-> cat[f]], 1)
  /\ settled = <<1, 2, 3>>
  /\ mainPc = "awaitFeeds"
  /\ feedResults = << >>
  /\ allItems = << >>
  /\ index = 0 /\ extracted = 0 /\ failed = 0 /\ completed = 0
  /\ workers = EmptyBag
  /\ claimed = << >>
  /\ progress = << >>
  /\ files = << >>
  /\ fw = [pc |-> "none", retries |-> 0, attempts |-> 0, firstError |-> Null, value |-> Null]
  /\ fu = NoCall
  /\ net = << >>
  /\ sent = 0
  /\ rd = NoProbe
  /\ ex = NoExtract
  /\ pure = NoFunction

NextOutput == FeedsAllDone

SpecOutput == InitOutput /\ [][NextOutput]_vars

(***************************************************************************)
(* cleanTextContent (lines 42-125)                                         *)
(*                                                                         *)
(* A line of the text is given by what the function reads of it:           *)
(*   text     the line, trimmed (line 48)                                  *)
(*   lower    line.toLowerCase() (line 88)                                 *)
(*   key      line.substring(0, 60).toLowerCase() (line 107)               *)
(*   length   line.length                                                  *)
(*   squeezed its length once every run of blanks is one space (line 115)  *)
(*   junk     whether one of junkPatterns matches it (lines 84-86)         *)
(*   includes the words of more than 3 characters that lower includes      *)
(*   commas   the number of its commas; dot: whether it holds a '.'        *)
(*   letters  the number of its letters (line 99)                          *)
(* and a title by its text, title.toLowerCase().trim(), its length and     *)
(* titleWords (line 46).                                                   *)
(***************************************************************************)

\* cleanTextContent returns null, or the paragraphs joined as <p>..</p> blocks.
NoContent == [kind |-> "null", paragraphs |-> << >>]
Paragraphs(lines) == [kind |-> "html", paragraphs |-> lines]

\* Lines 81-103: the filter of the lines, test by test in the order of the code.
KeepLine(line, title) ==
  IF line.length < 20 THEN FALSE
  ELSE IF line.length > 500 THEN TRUE
  ELSE IF line.junk THEN FALSE
  ELSE IF line.lower = title.lower THEN FALSE
  ELSE IF /\ Cardinality(title.words) >= 3
          /\ 5 * Cardinality(title.words \cap line.includes) >= 4 * Cardinality(title.words)
          /\ line.length < 150
       THEN FALSE
  ELSE IF line.commas > 3 /\ line.length < 200 /\ ~line.dot THEN FALSE
  ELSE IF 2 * line.letters < line.length /\ line.length < 100 THEN FALSE
  ELSE TRUE

RECURSIVE Filter(_, _)
Filter(lines, title) ==
  IF lines = << >> THEN << >>
  ELSE (IF KeepLine(Head(lines), title) THEN <<Head(lines)>> ELSE << >>)
       \o Filter(Tail(lines), title)

\* Lines 105-111: a line whose key was seen is dropped.
RECURSIVE Dedupe(_, _)
Dedupe(lines, seen) ==
  IF lines = << >> THEN << >>
  ELSE IF Head(lines).key \in seen THEN Dedupe(Tail(lines), seen)
  ELSE <<Head(lines)>> \o Dedupe(Tail(lines), seen \cup {Head(lines).key})

\* Lines 113-115: the length of the lines joined by '\n\n', blanks squeezed.
RECURSIVE JoinedLength(_)
JoinedLength(lines) ==
  IF lines = << >> THEN 0
  ELSE Head(lines).squeezed + (IF Len(lines) > 1 THEN 2 ELSE 0) + JoinedLength(Tail(lines))

\* Line 121: the paragraphs of more than 20 characters.
RECURSIVE LongParagraphs(_)
LongParagraphs(lines) ==
  IF lines = << >> THEN << >>
  ELSE (IF Head(lines).squeezed > 20 THEN <<Head(lines)>> ELSE << >>)
       \o LongParagraphs(Tail(lines))

\* Lines 42-125. The text is given as its trimmed non-empty lines: the empty
\* text and the text of blank lines only have none.
cleanTextContent(text, title) ==
  IF text = << >> THEN NoContent
  ELSE LET lines == Dedupe(Filter(text, title), {})
       IN IF JoinedLength(lines) < 100 THEN NoContent
          ELSE Paragraphs(LongParagraphs(lines))

\* The state of main() and of the calls above while a function is taken alone.
Elsewhere ==
  /\ fetchFullText = FALSE
  /\ PipeInit
  /\ fw = [pc |-> "none", retries |-> 0, attempts |-> 0, firstError |-> Null, value |-> Null]
  /\ fu = NoCall
  /\ net = << >>
  /\ sent = 0
  /\ rd = NoProbe
  /\ ex = NoExtract

\* The most entries of a repeated element and the largest cap of SpecParse.
MaxEntries == 3
MaxCap == 2

\* The entries of the documents of SpecParse, for each format: one with every
\* field the format has, one with a link only, and one with an escaped title, a
\* date that is none and other fields for content and link.
NodeKinds == <<"full", "bare", "odd">>

SampleLink(j) == IF j = 1 THEN RawLink(1, 1) ELSE "https://pub.example/p/" \o ToString(j)

SampleNode(format, kind, j) ==
  CASE format = "rss" /\ kind = "full" ->
         [EmptyNode EXCEPT !.guid = "g" \o ToString(j), !.link = SampleLink(j),
                           !.title = "Title " \o ToString(j), !.description = "Summary",
                           !.pubDate = IsoDate(j), !.comments = "https://hn.example/c"]
    [] format = "rss" /\ kind = "bare" -> [EmptyNode EXCEPT !.link = SampleLink(j)]
    [] format = "rss" /\ kind = "odd" ->
         [EmptyNode EXCEPT !.link = SampleLink(j), !.title = "R&amp;D",
                           !.encoded = "Encoded", !.description = "Summary",
                           !.pubDate = "yesterday"]
    [] format = "atom" /\ kind = "full" ->
         [EmptyNode EXCEPT !.id = "urn:" \o ToString(j),
                           !.links = One([rel |-> "alternate", href |-> SampleLink(j)]),
                           !.title = "Title " \o ToString(j), !.content = "Content",
                           !.updated = IsoDate(j), !.published = IsoDate(0)]
    [] format = "atom" /\ kind = "bare" ->
         [EmptyNode EXCEPT !.links = Many(<<[rel |-> "self", href |-> "https://pub.example/self"],
                                            [rel |-> "alternate", href |-> SampleLink(j)]>>)]
    [] format = "atom" /\ kind = "odd" ->
         [EmptyNode EXCEPT !.link = SampleLink(j), !.title = "R&amp;D",
                           !.summary = "Summary", !.published = IsoDate(j)]
    [] format = "rdf" /\ kind = "full" ->
         [EmptyNode EXCEPT !.link = SampleLink(j), !.title = "Title " \o ToString(j),
                           !.description = "Summary", !.dcDate = IsoDate(j)]
    [] format = "rdf" /\ kind = "bare" -> [EmptyNode EXCEPT !.link = SampleLink(j)]
    [] format = "rdf" /\ kind = "odd" ->
         [EmptyNode EXCEPT !.link = SampleLink(j), !.title = "R&amp;D",
                           !.dcDate = "yesterday"]

\* What the parser can put at the place of a format: nothing, a lone entry of
\* any kind, or 2..MaxEntries entries, of the kinds in turn.
Places(format) ==
  {None}
  \cup {One(SampleNode(format, kind, 1)) : kind \in {"full", "bare", "odd"}}
  \cup {Many([j \in 1..n |-> SampleNode(format, NodeKinds[((j - 1) % 3) + 1], j)]) :
          n \in 2..MaxEntries}

ParseTitles == {"Blog", "Google News", "My GOOGLE NEWS"}

\* parseRSS is about to be called on a parsed document: the parser does not ask
\* for a single root, so any of the three places may be filled.
InitParse ==
  /\ Elsewhere
  /\ \E rss \in Places("rss"), feed \in Places("atom"), rdf \in Places("rdf"),
        feedTitle \in ParseTitles, maxArticles \in 1..MaxCap :
       pure = [fn |-> "parseRSS",
               xml |-> [malformed |-> FALSE, rss |-> rss, feed |-> feed, rdf |-> rdf],
               feedTitle |-> feedTitle, maxArticles |-> maxArticles,
               done |-> FALSE, items |-> << >>]

ParseCall ==
  /\ pure.fn = "parseRSS"
  /\ ~pure.done
  /\ pure' = [pure EXCEPT !.done = TRUE,
                          !.items = parseRSS(pure.xml, pure.feedTitle, pure.maxArticles)]
  /\ UNCHANGED <<pipeVars, fetchVars, extractVars>>

NextParse == ParseCall

SpecParse == InitParse /\ [][NextParse]_vars

\* The titles given to cleanTextContent: one of a single long word, one of five,
\* and one of 501 characters.
CleanTitles ==
  {[text |-> "Vote on the new tax law", lower |-> "vote on the new tax law", length |-> 23,
    words |-> {"vote"}],
   [text |-> "Central bank raises interest rates", lower |-> "central bank raises interest rates",
    length |-> 34, words |-> {"central", "bank", "raises", "interest", "rates"}],
   [text |-> "A title of 501 characters", lower |-> "a title of 501 characters", length |-> 501,
    words |-> {"title", "characters"}]}

\* An ordinary sentence of this length, with one comma and a full stop.
Sentence(text, length) ==
  [text |-> text, lower |-> text, key |-> text, length |-> length, squeezed |-> length,
   junk |-> FALSE, includes |-> {}, commas |-> 1, dot |-> TRUE, letters |-> (4 * length) \div 5]

\* The line that is the title, as written and in capitals.
Echo(title) ==
  [Sentence(title.text, title.length) EXCEPT
     !.lower = title.lower, !.key = title.lower, !.includes = title.words,
     !.commas = 0, !.dot = FALSE]
Shout(title) == [Echo(title) EXCEPT !.text = "IN CAPITALS: " \o title.text]

\* The lines of the texts given to cleanTextContent with this title.
CleanLines(title) ==
  {Echo(title), Shout(title),
   Sentence("a sentence of 120 characters", 120),
   Sentence("a sentence of 20 characters", 20),
   [Sentence("a sentence of 24 characters, with runs of blanks", 24) EXCEPT !.squeezed = 21],
   [Sentence("the sentence of 120 characters, then more", 130) EXCEPT
      !.key = "a sentence of 120 characters"],
   [Sentence("the title with a few words more", 140) EXCEPT !.includes = title.words],
   Sentence("a word", 6),
   [Sentence("https://example.org/some/page/of/theirs", 40) EXCEPT !.junk = TRUE, !.commas = 0],
   [Sentence("600 characters that hold 'All rights reserved'", 600) EXCEPT !.junk = TRUE],
   [Sentence("tags, tags, tags, tags, tags, of 80 characters", 80) EXCEPT !.commas = 5, !.dot = FALSE],
   [Sentence("12.5 / 30.1 / 44.8: figures, 50 characters", 50) EXCEPT !.letters = 10]}

\* The most lines of a text.
MaxLines == 3

\* cleanTextContent is about to be called on a text and a title.
InitClean ==
  /\ Elsewhere
  /\ \E title \in CleanTitles, n \in 0..MaxLines :
       \E text \in [1..n -> CleanLines(title)] :
         pure = [fn |-> "cleanTextContent", text |-> text, title |-> title,
                 done |-> FALSE, out |-> NoContent]

CleanCall ==
  /\ pure.fn = "cleanTextContent"
  /\ ~pure.done
  /\ pure' = [pure EXCEPT !.done = TRUE, !.out = cleanTextContent(pure.text, pure.title)]
  /\ UNCHANGED <<pipeVars, fetchVars, extractVars>>

NextClean == CleanCall

SpecClean == InitClean /\ [][NextClean]_vars

\* The largest articlesPerFeed of a feed source of SpecCap, and the most entries
\* of its document.
MaxOverride == 6
MaxCapEntries == 7

\* The feed sources of SpecCap: with an articlesPerFeed of their own, and without.
CapSources ==
  {[title |-> "Blog", url |-> "https://blog.example/feed", categoryName |-> "Tech"]}
  \cup {[title |-> "Blog", url |-> "https://blog.example/feed", categoryName |-> "Tech",
          articlesPerFeed |-> v] : v \in 0..MaxOverride}

\* The task of a feed source is about to parse the document it fetched.
InitCap ==
  /\ Elsewhere
  /\ \E feed \in CapSources, n \in 0..MaxCapEntries :
       pure = [fn |-> "feedTask", feed |-> feed, entries |-> n, done |-> FALSE, items |-> << >>]

\* Lines 472-473 of the task: the cap is chosen and the document parsed.
CapCall ==
  /\ pure.fn = "feedTask"
  /\ ~pure.done
  /\ pure' = [pure EXCEPT
                !.done = TRUE,
                !.items = parseRSS(RssDoc(Many([j \in 1..pure.entries |-> RawEntry(3, j)])),
                                   pure.feed.title, MaxArticles(pure.feed))]
  /\ UNCHANGED <<pipeVars, fetchVars, extractVars>>

NextCap == CapCall

SpecCap == InitCap /\ [][NextCap]_vars

\* The most lines of a text of SpecParagraphs, and the k-th line of such a text:
\* a sentence of its own of 19, 20, 21 or 40 characters, or one of 24 characters
\* that has 20 once its runs of blanks are squeezed.
MaxShortLines == 5
ShortKinds == {19, 20, 21, 24, 40}
ShortLine(k, n) ==
  [Sentence("sentence " \o ToString(k) \o ", " \o ToString(n) \o " characters", n) EXCEPT
     !.squeezed = IF n = 24 THEN 20 ELSE n]

\* cleanTextContent is about to be called on a text of short lines.
InitParagraphs ==
  /\ Elsewhere
  /\ \E n \in 0..MaxShortLines : \E kinds \in [1..n -> ShortKinds] :
       pure = [fn |-> "cleanTextContent", text |-> [k \in 1..n |-> ShortLine(k, kinds[k])],
               title |-> [text |-> "", lower |-> "", length |-> 0, words |-> {}],
               done |-> FALSE, out |-> NoContent]

SpecParagraphs == InitParagraphs /\ [][NextClean]_vars

\* ---------------------------------------------------------------------------
\* fetchUrl's 'end' handler (lines 277-290): the body's bytes become a string.
\* ---------------------------------------------------------------------------

\* The character of a code point, for the code points of the sample bodies;
\* the ones outside Latin-1 are written U+hhhh.
CodePoint(code) ==
  CASE code = 65    -> "A"
    [] code = 169   -> "©"
    [] code = 195   -> "Ã"
    [] code = 233   -> "é"
    [] code = 1043  -> "U+0413"
    [] code = 1081  -> "U+0439"
    [] code = 65533 -> "U+FFFD"
    [] OTHER        -> "¤"

\* buffer.toString('latin1'): one character per byte, the byte's own code.
RECURSIVE Latin1(_)
Latin1(buffer) ==
  IF buffer = << >> THEN << >> ELSE <<CodePoint(Head(buffer))>> \o Latin1(Tail(buffer))

\* buffer.toString('utf8'), for one- and two-byte sequences: a lead byte
\* 0xC2..0xDF with a continuation byte 0x80..0xBF is one character, a byte
\* below 0x80 is itself, anything else is U+FFFD.
RECURSIVE Utf8(_)
Utf8(buffer) ==
  IF buffer = << >> THEN << >>
  ELSE IF Head(buffer) < 128
  THEN <<CodePoint(Head(buffer))>> \o Utf8(Tail(buffer))
  ELSE IF /\ Head(buffer) \in 194..223
          /\ Len(buffer) >= 2
          /\ buffer[2] \in 128..191
  THEN <<CodePoint((Head(buffer) - 192) * 64 + (buffer[2] - 128))>>
         \o Utf8(Tail(Tail(buffer)))
  ELSE <<CodePoint(65533)>> \o Utf8(Tail(buffer))

\* [^\s;]: a character that is neither white space nor a semicolon.
IsCharsetChar(c) == c \notin {" ", "\t", ";"}

\* The longest run of [^\s;] characters of cs from position i on.
RECURSIVE CharsetRun(_, _)
CharsetRun(cs, i) ==
  IF i > Len(cs) \/ ~IsCharsetChar(cs[i]) THEN << >>
  ELSE <<cs[i]>> \o CharsetRun(cs, i + 1)

\* contentType.match(/charset=([^\s;]+)/i)?.[1]: the capture of the leftmost
\* match, Null without a match.
CharsetMatch(contentType) ==
  LET lower == [k \in 1..Len(contentType) |-> toLowerCase(contentType[k])]
      key   == <<"c", "h", "a", "r", "s", "e", "t", "=">>
      at(i) == /\ i + Len(key) <= Len(contentType)
               /\ SubSeq(lower, i, i + Len(key) - 1) = key
               /\ IsCharsetChar(contentType[i + Len(key)])
      hits  == {i \in 1..Len(contentType) : at(i)}
  IN IF hits = {} THEN Null
     ELSE CharsetRun(contentType, Len(key) + CHOOSE i \in hits : \A j \in hits : i <= j)

\* charsetMatch?.[1]?.toLowerCase() || 'utf-8'
Encoding(contentType) ==
  LET m == CharsetMatch(contentType)
  IN IF m = Null THEN <<"u", "t", "f", "-", "8">>
     ELSE [k \in 1..Len(m) |-> toLowerCase(m[k])]

\* Lines 283-285: Latin-1 for the two labels the code names, UTF-8 for every
\* other encoding.
DecodeBody(contentType, buffer) ==
  IF Encoding(contentType) \in {<<"i", "s", "o", "-", "8", "8", "5", "9", "-", "1">>, <<"l", "a", "t", "i", "n", "1">>}
  THEN Latin1(buffer)
  ELSE Utf8(buffer)

\* The media types, the separators, the parameter names and the charset
\* values of the Content-Type headers of SpecCharset; a value comes with the
\* character set it names.
MediaTypes == {<<"t", "e", "x", "t", "/", "h", "t", "m", "l">>, <<"a", "p", "p", "l", "i", "c", "a", "t", "i", "o", "n", "/", "x", "m", "l">>}
ParamSeparators == {<<";">>, <<";", " ">>}
ParamNames == {<<"c", "h", "a", "r", "s", "e", "t", "=">>, <<"C", "h", "a", "r", "s", "e", "t", "=">>}
CharsetValues ==
  {[text |-> <<"u", "t", "f", "-", "8">>, names |-> "utf-8"],
   [text |-> <<"U", "T", "F", "-", "8">>, names |-> "utf-8"],
   [text |-> <<"i", "s", "o", "-", "8", "8", "5", "9", "-", "1">>, names |-> "iso-8859-1"],
   [text |-> <<"I", "S", "O", "-", "8", "8", "5", "9", "-", "1">>, names |-> "iso-8859-1"],
   [text |-> <<"l", "a", "t", "i", "n", "1">>, names |-> "iso-8859-1"],
   [text |-> <<"\"", "i", "s", "o", "-", "8", "8", "5", "9", "-", "1", "\"">>, names |-> "iso-8859-1"],
   [text |-> <<"w", "i", "n", "d", "o", "w", "s", "-", "1", "2", "5", "1">>, names |-> "windows-1251"]}

\* The bodies of SpecCharset: "A", "é" in Latin-1 (U+0439 in Windows-1251,
\* no character in UTF-8), "é" in UTF-8.
Buffers == {<<65>>, <<233>>, <<195, 169>>, <<65, 233>>}

\* A response is complete: its Content-Type header is absent, names no
\* charset, or names one.
InitCharset ==
  /\ Elsewhere
  /\ \E buffer \in Buffers :
       \/ \E contentType \in {<< >>} \cup MediaTypes :
            pure = [fn |-> "fetchUrl.end", contentType |-> contentType,
                    declared |-> "none", buffer |-> buffer, done |-> FALSE,
                    text |-> << >>]
       \/ \E type \in MediaTypes, sep \in ParamSeparators, name \in ParamNames,
             value \in CharsetValues :
            pure = [fn |-> "fetchUrl.end",
                    contentType |-> type \o sep \o name \o value.text,
                    declared |-> value.names, buffer |-> buffer, done |-> FALSE,
                    text |-> << >>]

\* The 'end' handler resolves with the decoded body.
CharsetCall ==
  /\ pure.fn = "fetchUrl.end"
  /\ ~pure.done
  /\ pure' = [pure EXCEPT !.done = TRUE,
                          !.text = DecodeBody(pure.contentType, pure.buffer)]
  /\ UNCHANGED <<fetchFullText, pipeVars, fetchVars, extractVars>>

NextCharset == CharsetCall

SpecCharset == InitCharset /\ [][NextCharset]_vars

\* The pieces the strings given to decodeHtmlEntities are made of, and the most
\* pieces of one string.
DecodeTokens ==
  {<<"&", "a", "m", "p", ";">>, <<"&", "#">>, <<"a", "m", "p", ";">>, <<"l", "t", ";">>, <<"3", "8", ";">>,
   <<"2", "3", "3", ";">>, <<"x", "2", "0", "1", "4", ";">>, <<"x", "2", "6", ";">>,
   <<"A", " ">>, <<" ", "B">>}
MaxTokens == 3

RECURSIVE Concat(_)
Concat(tokens) == IF tokens = << >> THEN << >> ELSE Head(tokens) \o Concat(Tail(tokens))

\* decodeHtmlEntities is about to be called on a string.
InitDecode ==
  /\ Elsewhere
  /\ \E n \in 1..MaxTokens : \E tokens \in [1..n -> DecodeTokens] :
       pure = [fn |-> "decodeHtmlEntities", str |-> Concat(tokens), out |-> << >>]

\* decodeHtmlEntities is called on the string, then on its own result.
DecodeCall ==
  /\ pure.fn = "decodeHtmlEntities"
  /\ Len(pure.out) < 2
  /\ pure' = [pure EXCEPT !.out = Append(pure.out,
                 decodeHtmlEntities(IF pure.out = << >> THEN pure.str
                                    ELSE pure.out[Len(pure.out)]))]
  /\ UNCHANGED <<pipeVars, fetchVars, extractVars>>

NextDecode == DecodeCall

SpecDecode == InitDecode /\ [][NextDecode]_vars


(***************************************************************************)
(* Properties of the scheduler (checked under Spec)                        *)
(***************************************************************************)

\* The extraction operations in flight: one per suspended worker, which waits
\* either for its followRedirect probe or for its extractArticleContent call.
InFlight == BagCardinality(workers)

PhaseBEnded == fetchFullText /\ mainPc = "output"

LinkLess == Cardinality({k \in 1..Len(allItems) : heap[allItems[k]].link = ""})

\* C1: during Phase B, at every instant, at most 10 extraction operations are in
\* flight, and at most min(10, N) for a worklist of N items.
C1_PoolCeiling ==
  /\ InFlight <= 10
  /\ InFlight <= Len(allItems)

\* A worklist of more than 10 items with 10 operations in flight and items left.
C1_Witness ==
  /\ InFlight = 10
  /\ Len(allItems) > 10
  /\ index < Len(allItems)

\* C2: when Phase B ends, every worklist position 1..N has been processed exactly
\* once, completed = N, and extracted + failed + skipped = N.
C2_AllProcessedOnce ==
  PhaseBEnded =>
    /\ Len(claimed) = Len(allItems)
    /\ \A k \in 1..Len(allItems) : Cardinality({i \in 1..Len(claimed) : claimed[i] = k}) = 1
    /\ completed = Len(allItems)
    /\ extracted + failed + LinkLess = Len(allItems)

\* Phase B ended on a worklist larger than the pool, with all three outcomes.
C2_Witness ==
  /\ PhaseBEnded
  /\ Len(allItems) > 10
  /\ extracted > 0 /\ failed > 0 /\ LinkLess > 0

\* C3: no two workers ever hold the same worklist item; the cursor moves by one
\* per claim (the k-th claim is position k) and never exceeds the worklist length.
C3_NoDoubleClaim ==
  /\ \A fr \in BagToSet(workers) : CopiesIn(fr, workers) = 1
  /\ \A a, b \in BagToSet(workers) : a # b => a.pos # b.pos
  /\ Len(claimed) = index
  /\ \A k \in 1..Len(claimed) : claimed[k] = k
  /\ index <= Len(allItems)

\* The pool is full and a worker has come back for a further item.
C3_Witness ==
  /\ InFlight = 10
  /\ index = Len(allItems)
  /\ index > 10
  /\ extracted + failed > 0

\* A redirect probe or an article fetch has been issued.
ExtractionStarted == InFlight > 0 \/ index > 0 \/ extracted + failed > 0

\* C4: no redirect probe and no article fetch is issued before every feed's task
\* has produced its FetchResult.
C4_PhaseBAfterPhaseA ==
  ExtractionStarted =>
    \A f \in Feeds : tasks[f].pc = "done" /\ tasks[f].result.feed = allFeeds[f]

\* Extraction is under way, after a Phase A in which one feed failed and another
\* one succeeded.
C4_Witness ==
  /\ InFlight > 0
  /\ \E f \in Feeds : tasks[f].threw # Null
  /\ \E f \in Feeds : tasks[f].threw = Null

\* C5: after Phase A there is exactly one FetchResult per configured feed, in
\* configuration order whatever the completion order; a feed whose fetch or parse
\* threw has no items and a non-null error, a feed that succeeded has error null.
C5_OneResultPerFeed ==
  mainPc # "awaitFeeds" =>
    /\ Len(feedResults) = Len(allFeeds)
    /\ \A f \in Feeds :
         /\ feedResults[f].feed = allFeeds[f]
         /\ tasks[f].threw # Null =>
              feedResults[f].items = << >> /\ feedResults[f].error # Null
         /\ tasks[f].threw = Null => feedResults[f].error = Null

\* Phase A is over; the last configured feed settled first, one feed failed and
\* another one delivered items.
C5_Witness ==
  /\ mainPc # "awaitFeeds"
  /\ settled[1] = Len(allFeeds)
  /\ \E f \in Feeds : tasks[f].threw # Null
  /\ \E f \in Feeds : feedResults[f].items # << >>

\* The FetchResult of feed f in a run in which no feed fails.
AloneResult(f) ==
  Returned(allFeeds[f], Refs(f, Min(DocLen(f), MaxArticles(allFeeds[f]))))

\* C6: feed failures are isolated: whatever feeds fail, a feed whose own fetch and
\* parse succeed yields the FetchResult of a failure-free run, Phase A completes
\* (a failed task settles with a result like any other) and the run is not aborted.
C6_FailuresIsolated ==
  /\ mainPc \in {"awaitFeeds", "awaitWorkers", "output"}
  /\ \A f \in Feeds :
       (tasks[f].pc = "done" /\ tasks[f].threw = Null) =>
         /\ tasks[f].result = AloneResult(f)
         /\ \A j \in 1..Len(tasks[f].result.items) :
              heap[<<f, j>>].id = RemoteDoc(f).rss.value[j].guid
         /\ mainPc # "awaitFeeds" => feedResults[f] = AloneResult(f)
  /\ \A f \in Feeds : tasks[f].threw # Null => tasks[f].pc = "done"

\* Phase A is over with two failed feeds and one that delivered all its items.
C6_Witness ==
  /\ mainPc # "awaitFeeds"
  /\ Cardinality({f \in Feeds : tasks[f].threw # Null}) = 2
  /\ \E f \in Feeds : feedResults[f] = AloneResult(f)


(***************************************************************************)
(* Properties of fetchUrl and fetchWithRetry (checked under SpecFetch)     *)
(***************************************************************************)

FetchSettled == fu.state \in {"resolved", "rejected"}

\* The event is a 3xx response that carries a Location header.
RedirectEvent(e) == e.kind = "response" /\ e.status \in 300..399 /\ e.location

\* The redirect responses the current fetchUrl call has received.
Redirects == Cardinality({i \in 1..Len(net) : RedirectEvent(net[i])})

LastEvent == net[Len(net)]

\* The last response is neither a redirect nor an HTTP error.
LastIsFinalOk ==
  /\ net # << >>
  /\ LastEvent.kind = "response"
  /\ ~RedirectEvent(LastEvent)
  /\ LastEvent.status < 400

\* C7: fetchWithRetry makes at most two fetch attempts: none after a first attempt
\* that succeeds; after a failed first attempt exactly one retry, whose text it
\* returns or whose error it propagates.
C7_AtMostOneRetry ==
  /\ fw.attempts <= 2
  /\ fw.attempts = 2 => fw.firstError # Null
  /\ fw.pc = "returned" =>
       /\ fu.state = "resolved" /\ fw.value = fu.value
       /\ \E n \in 1..5 : fw.value = Body(fw.attempts, n)
       /\ fw.firstError = Null => fw.attempts = 1
       /\ fw.firstError # Null => fw.attempts = 2
  /\ fw.pc = "threw" =>
       /\ fw.attempts = 2
       /\ fu.state = "rejected" /\ fw.value = fu.value

\* The first attempt failed and the retry's text was returned.
C7_Witness ==
  /\ fw.pc = "returned"
  /\ fw.firstError # Null
  /\ fw.value = Body(2, 1)

\* C8: when every response is a redirect, fetchUrl fails with 'Too many
\* redirects' after exactly 5 requests; a 6th request is never issued.
C8_HaltsAfterFiveHops ==
  /\ fu.requests <= 5
  /\ (FetchSettled /\ net # << >> /\ \A i \in 1..Len(net) : RedirectEvent(net[i])) =>
       /\ fu.state = "rejected" /\ fu.value = TooManyRedirects
       /\ Len(net) = 5 /\ fu.requests = 5

\* A call that only ever saw redirects has settled.
C8_Witness ==
  /\ FetchSettled
  /\ net # << >>
  /\ \A i \in 1..Len(net) : RedirectEvent(net[i])

\* C9 as stated: a chain of up to 5 redirects that ends in a final response below
\* 400 resolves with that response's text, and 'Too many redirects' happens only
\* when the chain has more than 5 redirects.
C9_UpToFiveRedirects ==
  /\ (FetchSettled /\ LastIsFinalOk /\ Redirects <= 5) =>
       fu.state = "resolved" /\ fu.value = Body(fw.attempts, Len(net))
  /\ (fu.state = "rejected" /\ fu.value = TooManyRedirects) => Redirects > 5

\* C9, amended: a chain of k redirects, 0 <= k <= 4, that ends in a final response
\* below 400 resolves with that response's text; fetchUrl fails with 'Too many
\* redirects' exactly when the chain has 5 redirects: the fifth redirect is not
\* followed.
C9_UpToFourRedirects ==
  /\ (FetchSettled /\ LastIsFinalOk) =>
       /\ fu.state = "resolved" /\ fu.value = Body(fw.attempts, Len(net))
       /\ Redirects = Len(net) - 1 /\ Redirects <= 4
  /\ (fu.state = "rejected" /\ fu.value = TooManyRedirects) <=> Redirects = 5

\* Four redirects were followed and the fifth response was delivered.
C9_Witness ==
  /\ fu.state = "resolved"
  /\ Redirects = 4
  /\ fu.value = Body(fw.attempts, 5)

Parsed(ref) ==
  parseRSS(RemoteDoc(ref[1]), allFeeds[ref[1]].title, MaxArticles(allFeeds[ref[1]]))[ref[2]]

\* The one item of the run of SpecExtract, and the index written by the run.
TheItem == heap[<<1, 1>>]
WrittenIndex == files[Len(files) - 1].data

\* C11: extractArticleContent never rejects, whatever step throws; an item whose
\* extraction yields nothing keeps its id, title and feed-provided content and
\* only lacks fullContent, is counted as failed, and the failure is never written
\* to its feed's error, neither in the result nor in the index.
C11_ExtractionNeverFails ==
  /\ ex.pc # "rejected"
  /\ TheItem.id = Parsed(<<1, 1>>).id
  /\ TheItem.title = Parsed(<<1, 1>>).title
  /\ TheItem.content = Parsed(<<1, 1>>).content
  /\ feedResults[1].error = Null
  /\ (workers = EmptyBag /\ extracted = 0) =>
       /\ TheItem.fullContent = Absent
       /\ failed = 1 /\ completed = 1
  /\ mainPc = "output" =>
       /\ WrittenIndex.categories[1].feeds[1].error = Null
       /\ files[1].data.items = <<TheItem>>

\* Both runs of the extraction threw, the worker went on and the output was
\* written with the item as the feed delivered it.
C11_Witness ==
  /\ Len(ex.log) = 2 /\ ex.log[1].threw /\ ex.log[2].threw
  /\ mainPc = "output"
  /\ failed = 1
  /\ files[1].data.items[1].fullContent = Absent

\* C12: the extraction sequence runs at most twice per article; a further run
\* follows only a run that threw; a run that returns, with or without content,
\* settles the call with what it returned; a second exception settles it with
\* null.
C12_AtMostOneExtractRetry ==
  /\ Len(ex.log) <= 2
  /\ \A k \in 1..(Len(ex.log) - 1) : ex.log[k].threw
  /\ ex.pc = "fetch" => Len(ex.log) = DefaultExtractRetries - ex.retries
  /\ ex.pc = "backoff" => Len(ex.log) = 1 /\ ex.log[1].threw
  /\ ex.pc = "resolved" =>
       LET last == ex.log[Len(ex.log)]
       IN IF last.threw THEN Len(ex.log) = 2 /\ ex.value = Null
          ELSE ex.value = last.value
  /\ ex.pc \in {"fetch", "backoff", "resolved"}

\* The first run threw and the second one returned the article.
C12_Witness ==
  /\ ex.pc = "resolved"
  /\ Len(ex.log) = 2
  /\ ex.log[1].threw /\ ~ex.log[2].threw
  /\ ex.value \notin {Null, ""}

\* C13: without fetchFullText there is no Phase B: no worklist, no worker, no
\* probe and no article fetch, and every item is, up to the output, exactly as
\* the parser produced it.
C13_PhaseBOnlyWithFlag ==
  ~fetchFullText =>
    /\ workers = EmptyBag
    /\ allItems = << >> /\ claimed = << >>
    /\ index = 0 /\ completed = 0 /\ extracted = 0 /\ failed = 0
    /\ progress = << >>
    /\ \A ref \in DOMAIN heap : heap[ref] = Parsed(ref)
    /\ mainPc = "output" =>
         \A f \in Feeds : files[f].data.items = [j \in 1..Len(feedResults[f].items) |->
                                                   Parsed(feedResults[f].items[j])]

\* The output of a run without fetchFullText in which every feed delivered items.
C13_Witness ==
  /\ ~fetchFullText
  /\ mainPc = "output"
  /\ \A f \in Feeds : feedResults[f].items # << >>

\* The worklist positions claimed so far whose item has no link.
Skipped == {k \in 1..Len(claimed) : heap[allItems[claimed[k]]].link = ""}

\* C14: for an item without a link no request is ever issued, it is counted
\* neither as extracted nor as failed, it stays as parsed, and it counts toward
\* completed.
C14_LinkLessSkipped ==
  /\ \A fr \in BagToSet(workers) : heap[allItems[fr.pos]].link # ""
  /\ \A k \in 1..Len(allItems) :
       heap[allItems[k]].link = "" => heap[allItems[k]] = Parsed(allItems[k])
  /\ completed = extracted + failed + Cardinality(Skipped)
  /\ extracted + failed + InFlight + Cardinality(Skipped) = index

\* A link-less item was skipped while other items are being extracted.
C14_Witness ==
  /\ Skipped # {}
  /\ InFlight > 0
  /\ extracted > 0 /\ failed > 0

\* The items that carry a fullContent.
WithFullContent == {ref \in DOMAIN heap : heap[ref].fullContent # Absent}

\* C16: an item has a fullContent only if its extraction returned non-empty
\* content: the field is absent or that content, never null or the empty
\* string, as many items carry it as were counted extracted, and once set it is
\* neither overwritten nor removed.
C16_FullContentOnlyWhenExtracted ==
  /\ [](/\ \A ref \in WithFullContent :
             /\ heap[ref].fullContent \notin {Null, ""}
             /\ heap[ref].fullContent = Content(heap[ref].link)
             /\ \E k \in 1..Len(claimed) : allItems[claimed[k]] = ref
        /\ Cardinality(WithFullContent) = extracted)
  /\ [][\A ref \in WithFullContent :
          ref \in DOMAIN heap' /\ heap'[ref].fullContent = heap[ref].fullContent]_vars

\* The run ended with one item extracted and the others not.
C16_Witness ==
  /\ PhaseBEnded
  /\ Cardinality(WithFullContent) = 1
  /\ failed > 1
  /\ \E f \in Feeds : \E j \in 1..Len(files[f].data.items) :
       files[f].data.items[j].fullContent # Absent

\* The values completed has taken at which a progress report is due.
ReportsDue == {c \in 1..completed : Reports(c, Len(allItems))}

\* C15: in Phase B a progress report is emitted each time completed reaches a
\* multiple of 10 and when it reaches the length of the worklist.
C15_ProgressAtTenthAndLast ==
  mainPc \in {"awaitWorkers", "output"} =>
    \A c \in ReportsDue : \E k \in 1..Len(progress) : progress[k] = c

\* The entries of the written index, category by category.
IndexEntries ==
  UNION {{WrittenIndex.categories[c].feeds[e] :
            e \in 1..Len(WrittenIndex.categories[c].feeds)} :
         c \in 1..Len(WrittenIndex.categories)}

\* The writes of shard files, and the content of a file after the run: what the
\* last write to it wrote.
ShardWrites == {k \in 1..Len(files) : files[k].name \notin {IndexPath, LegacyPath}}
LastWrite(name) ==
  CHOOSE k \in 1..Len(files) :
    files[k].name = name /\ \A l \in (k + 1)..Len(files) : files[l].name # name
FileContent(name) == files[LastWrite(name)].data

\* C17: the shards are written first, one write per result, then the index,
\* then the legacy file; every file the index names was written before the
\* index, in the same run, and every result has its entry in the index.
C17_ShardsBeforeIndex ==
  files # << >> =>
    LET n == Len(feedResults) IN
    /\ Len(files) = n + 2
    /\ ShardWrites = 1..n
    /\ files[n + 1].name = IndexPath
    /\ files[n + 2].name = LegacyPath
    /\ \A k \in 1..n : files[k].name = ShardPath(FeedFile(feedResults[k].feed))
    /\ \A entry \in IndexEntries :
         \E k \in 1..n : files[k].name = ShardPath(entry.file)
    /\ \A k \in 1..n : \E entry \in IndexEntries :
         entry.url = feedResults[k].feed.url /\ entry.file = FeedFile(feedResults[k].feed)

\* The output of a run with Phase B in which one feed failed: its shard is
\* written like the others.
C17_Witness ==
  /\ PhaseBEnded
  /\ Len(files) = Len(feedResults) + 2
  /\ \E f \in Feeds : feedResults[f].error # Null
  /\ \E f \in Feeds : feedResults[f].items # << >>

\* C18: after a completed run, the count of every feed entry of the index is
\* the number of items in the shard file the entry names.
C18_CountMatchesShard ==
  mainPc = "output" =>
    \A entry \in IndexEntries :
      entry.count = Len(FileContent(ShardPath(entry.file)).items)

\* C19: two different configured feeds never map to the same shard file name,
\* and there are as many shard files after a run as configured feeds.
C19_OneShardPerFeed ==
  mainPc = "output" =>
    /\ \A f, g \in 1..Len(feedResults) :
         f # g => FeedFile(feedResults[f].feed) # FeedFile(feedResults[g].feed)
    /\ Cardinality({files[k].name : k \in ShardWrites}) = Len(feedResults)

\* C20: the headers of every feed entry of the index correspond one-to-one and
\* in order to the items written to the feed's shard (same id, title, date and
\* link), and no header has a content or a fullContent.
C20_IndexIsProjection ==
  mainPc = "output" =>
    /\ Cardinality(IndexEntries) = Len(feedResults)
    /\ \A k \in 1..Len(feedResults) :
         \E entry \in IndexEntries :
           LET shard == files[k].data IN
           /\ entry.url = feedResults[k].feed.url
           /\ files[k].name = ShardPath(entry.file)
           /\ Len(entry.items) = Len(shard.items)
           /\ \A j \in 1..Len(shard.items) :
                /\ entry.items[j].id = shard.items[j].id
                /\ entry.items[j].title = shard.items[j].title
                /\ entry.items[j].date = shard.items[j].date
                /\ entry.items[j].link = shard.items[j].link
                /\ DOMAIN entry.items[j] \cap {"content", "fullContent"} = {}
                /\ "content" \in DOMAIN shard.items[j]

\* The output of a run in which an aggregator link was resolved and its article
\* extracted: the shard has the body, the header the resolved link.
C20_Witness ==
  /\ PhaseBEnded
  /\ \E entry \in IndexEntries : \E j \in 1..Len(entry.items) :
       LET item == FileContent(ShardPath(entry.file)).items[j] IN
       /\ item.fullContent # Absent
       /\ item.isGoogleNews
       /\ ~IsOnAggregator(entry.items[j].link)

(***************************************************************************)
(* Properties of decodeHtmlEntities (checked under SpecDecode)             *)
(***************************************************************************)

\* A named entity of the table or a numeric reference starts at position i.
ReferenceAt(cs, i) ==
  LET tail == SubSeq(cs, i, Len(cs))
      Numeric(prefix, radix) ==
        LET open == <<"&", "#">> \o prefix
            rest == SubSeq(tail, Len(open) + 1, Len(tail))
            n == DigitRun(rest, radix)
        IN /\ Len(tail) >= Len(open) + 2
           /\ SubSeq(tail, 1, Len(open)) = open
           /\ n > 0 /\ Len(rest) > n /\ rest[n + 1] = ";"
  IN \/ \E k \in 1..Len(entities) :
          /\ Len(tail) >= Len(entities[k].entity)
          /\ SubSeq(tail, 1, Len(entities[k].entity)) = entities[k].entity
     \/ Numeric(<< >>, 10)
     \/ Numeric(<<"x">>, 16)

HasReference(cs) == \E i \in 1..Len(cs) : ReferenceAt(cs, i)

\* C28 as stated: decoding the decoded text changes nothing, for every string,
\* and the three examples decode as given.
C28_DecodeIdempotent ==
  /\ Len(pure.out) = 2 => pure.out[2] = pure.out[1]
  /\ decodeHtmlEntities(<<"A", " ", "&", "a", "m", "p", ";", " ", "B">>)
       = <<"A", " ", "&", " ", "B">>
  /\ decodeHtmlEntities(<<"&", "#", "2", "3", "3", ";">>) = <<"é">>
  /\ decodeHtmlEntities(<<"&", "#", "x", "2", "0", "1", "4", ";">>) = <<"U+2014">>

\* C28, amended: text without a reference is left as it is, so decoding the
\* decoded text changes nothing whenever the decoded text holds no reference;
\* the three examples decode as given.
C28_DecodeIdempotentOnDecoded ==
  /\ (Len(pure.out) >= 1 /\ ~HasReference(pure.str)) => pure.out[1] = pure.str
  /\ (Len(pure.out) = 2 /\ ~HasReference(pure.out[1])) => pure.out[2] = pure.out[1]
  /\ decodeHtmlEntities(<<"A", " ", "&", "a", "m", "p", ";", " ", "B">>)
       = <<"A", " ", "&", " ", "B">>
  /\ decodeHtmlEntities(<<"&", "#", "2", "3", "3", ";">>) = <<"é">>
  /\ decodeHtmlEntities(<<"&", "#", "x", "2", "0", "1", "4", ";">>) = <<"U+2014">>

\* "A &amp; B" was decoded to "A & B", and decoded again to the same.
C28_Witness ==
  /\ pure.fn = "decodeHtmlEntities"
  /\ pure.str = <<"A", " ", "&", "a", "m", "p", ";", " ", "B">>
  /\ Len(pure.out) = 2
  /\ pure.out[1] = <<"A", " ", "&", " ", "B">>
  /\ pure.out[2] = pure.out[1]

(***************************************************************************)
(* Properties of parseRSS (checked under SpecParse)                        *)
(***************************************************************************)

\* The entries of the document parseRSS makes items of, in the order of the
\* items, each with its format.
Tagged(format, place, maxArticles) ==
  IF place.shape = "none" THEN << >>
  ELSE LET feedItems == Slice(AsArray(place), maxArticles)
       IN [j \in 1..Len(feedItems) |-> [format |-> format, node |-> feedItems[j]]]

Sources ==
  Tagged("rss", pure.xml.rss, pure.maxArticles)
  \o Tagged("atom", pure.xml.feed, pure.maxArticles)
  \o Tagged("rdf", pure.xml.rdf, pure.maxArticles)

\* The number of entries of the document, and the places that are filled.
EntriesAt(place) == IF place.shape = "none" THEN 0 ELSE Len(AsArray(place))
Entries == EntriesAt(pure.xml.rss) + EntriesAt(pure.xml.feed) + EntriesAt(pure.xml.rdf)
Filled == {place \in {pure.xml.rss, pure.xml.feed, pure.xml.rdf} : place.shape # "none"}
FormatsFilled ==
  {f \in {"rss", "atom", "rdf"} :
     (f = "rss" /\ pure.xml.rss.shape # "none")
     \/ (f = "atom" /\ pure.xml.feed.shape # "none")
     \/ (f = "rdf" /\ pure.xml.rdf.shape # "none")}

Parsed1 == pure.fn = "parseRSS" /\ pure.done

\* C23: parseRSS returns at most maxArticles items, and exactly maxArticles
\* when the document holds more entries.
C23_CapRespected ==
  Parsed1 =>
    /\ Len(pure.items) <= pure.maxArticles
    /\ Entries > pure.maxArticles => Len(pure.items) = pure.maxArticles

\* C24: the items returned all come from the place of a single format.
C24_OneFormat ==
  Parsed1 =>
    \/ pure.items = RssBlock(pure.xml.rss, pure.feedTitle, pure.maxArticles)
    \/ pure.items = AtomBlock(pure.xml.feed, pure.feedTitle, pure.maxArticles)
    \/ pure.items = RdfBlock(pure.xml.rdf, pure.feedTitle, pure.maxArticles)

\* The document has a lone entry at the place of one format and nothing else.
Minimal ==
  /\ Cardinality(FormatsFilled) = 1
  /\ \A place \in Filled : place.shape = "one"

NonNull(v) == v # Null /\ v # Absent

\* C25: of a document of any of the three formats with a lone entry that has a
\* link, parseRSS makes exactly one item, whose title, link, content, date and
\* id are all there; the title is 'Untitled' when the entry has none.
C25_MinimalDocument ==
  (Parsed1 /\ Minimal) =>
    /\ Len(pure.items) = 1
    /\ LET item == pure.items[1]
           node == Sources[1].node
       IN /\ NonNull(item.title) /\ item.title # ""
          /\ NonNull(item.link) /\ item.link # ""
          /\ NonNull(item.content)
          /\ item.date \in Nat
          /\ NonNull(item.id) /\ item.id # ""
          /\ node.title = "" => item.title = "Untitled"
          /\ node.title = "R&amp;D" => item.title = "R&D"

\* An Atom document with a lone entry without title was parsed.
C25_Witness ==
  /\ Parsed1 /\ Minimal
  /\ FormatsFilled = {"atom"}
  /\ Sources[1].node.title = ""
  /\ pure.items[1].title = "Untitled"
  /\ pure.items[1].link = SampleLink(1)

\* The date field parseRSS reads of an entry of the format.
DateField(source) ==
  CASE source.format = "rss" -> source.node.pubDate
    [] source.format = "atom" -> Or(source.node.updated, source.node.published)
    [] source.format = "rdf" -> source.node.dcDate

\* C26: every item of every format has a number as its date: the milliseconds
\* of the entry's date field, and 0 when the field is missing or is no date.
C26_DateNeverNull ==
  Parsed1 =>
    /\ Len(pure.items) = Len(Sources)
    /\ \A k \in 1..Len(pure.items) :
         /\ pure.items[k].date \in Nat
         /\ \A sec \in 0..9 :
              DateField(Sources[k]) = IsoDate(sec) => pure.items[k].date = 1000 * sec
         /\ DateField(Sources[k]) \in {"", "yesterday"} => pure.items[k].date = 0

\* Items of the three formats, some with a date and some with the sentinel.
C26_Witness ==
  /\ Parsed1
  /\ Cardinality(FormatsFilled) = 3
  /\ \E k \in 1..Len(pure.items) :
       DateField(Sources[k]) = "yesterday" /\ pure.items[k].date = 0
  /\ \E k \in 1..Len(pure.items) : DateField(Sources[k]) = "" /\ pure.items[k].date = 0
  /\ \E k \in 1..Len(pure.items) : pure.items[k].date > 0

\* C27: every item parsed from a feed whose title holds the aggregator marker is
\* flagged, whatever the format, and Phase B probes its aggregator link first.
C27_AggregatorFlagged ==
  (Parsed1 /\ IsGoogleNewsTitle(pure.feedTitle)) =>
    \A k \in 1..Len(pure.items) :
      /\ Flag(pure.items[k], "isGoogleNews")
      /\ IsOnAggregator(pure.items[k].link) => Issue(k, pure.items[k]).pc = "probe"

\* The places <<category, position>> of the written index that hold the entry
\* of the feed of this url.
PlacesOf(url) ==
  {p \in UNION {{<<c, e>> : e \in 1..Len(WrittenIndex.categories[c].feeds)} :
                c \in 1..Len(WrittenIndex.categories)} :
     WrittenIndex.categories[p[1]].feeds[p[2]].url = url}
PlaceOf(url) == CHOOSE p \in PlacesOf(url) : TRUE

\* C21: every configured feed has exactly one entry in the written index, in
\* the one category of its configured category name, the feeds of a category in
\* configuration order; a failed feed has its entry with count 0, no items and
\* its error; and the run writes a shard per feed, the index and the legacy file
\* whatever the number of articles extracted.
C21_EveryFeedIndexed ==
  mainPc = "output" =>
    LET cats == WrittenIndex.categories IN
    /\ Len(feedResults) = Len(allFeeds)
    /\ \A c, d \in 1..Len(cats) : cats[c].name = cats[d].name => c = d
    /\ \A f \in Feeds :
         /\ Cardinality(PlacesOf(allFeeds[f].url)) = 1
         /\ LET p == PlaceOf(allFeeds[f].url)
                entry == cats[p[1]].feeds[p[2]]
            IN /\ cats[p[1]].name = allFeeds[f].categoryName
               /\ entry.title = allFeeds[f].title
               /\ entry.count = Len(feedResults[f].items)
               /\ feedResults[f].error # Null =>
                    /\ entry.count = 0
                    /\ entry.items = << >>
                    /\ entry.error = feedResults[f].error
               /\ feedResults[f].error = Null => entry.error = Null
    /\ \A f, g \in Feeds :
         f < g /\ allFeeds[f].categoryName = allFeeds[g].categoryName =>
           PlaceOf(allFeeds[f].url)[2] < PlaceOf(allFeeds[g].url)[2]
    /\ Cardinality(IndexEntries) = Len(allFeeds)
    /\ Len(files) = Len(allFeeds) + 2
    /\ \A f \in Feeds : files[f].name = ShardPath(FeedFile(allFeeds[f]))
    /\ files[Len(allFeeds) + 1].name = IndexPath
    /\ files[Len(allFeeds) + 2].name = LegacyPath

\* The output of a run with Phase B in which no article was extracted and one
\* feed had failed in Phase A.
C21_Witness ==
  /\ PhaseBEnded
  /\ extracted = 0
  /\ failed > 0
  /\ \E f \in Feeds : feedResults[f].error # Null
  /\ \E f \in Feeds : feedResults[f].items # << >>
  /\ Len(files) = Len(allFeeds) + 2

\* The written legacy snapshot.
WrittenLegacy == files[Len(files)].data

\* C22 as stated: the timestamp of the run is carried, with the same value, by
\* the index, by every shard file and by the legacy snapshot.
C22_TimestampEverywhere ==
  mainPc = "output" =>
    /\ WrittenLegacy.lastUpdated = WrittenIndex.lastUpdated
    /\ \A k \in ShardWrites :
         /\ "lastUpdated" \in DOMAIN files[k].data
         /\ files[k].data.lastUpdated = WrittenIndex.lastUpdated

\* C22, amended: the timestamp of the run is taken once, when the index object
\* is created; the index and the legacy snapshot carry it with the same value,
\* and a shard file carries no timestamp: it holds a title and the items only.
C22_TimestampInIndexAndLegacy ==
  mainPc = "output" =>
    /\ WrittenIndex.lastUpdated = Now
    /\ WrittenLegacy.lastUpdated = WrittenIndex.lastUpdated
    /\ \A k \in ShardWrites : DOMAIN files[k].data = {"title", "items"}

\* The output of a run without Phase B: a shard with items was written, then
\* the index and the legacy snapshot.
C22_Witness ==
  /\ mainPc = "output"
  /\ ~fetchFullText
  /\ \E k \in ShardWrites : files[k].data.items # << >>
  /\ files[Len(files) - 1].name = IndexPath
  /\ files[Len(files)].name = LegacyPath

\* cleanTextContent has returned.
Cleaned == pure.fn = "cleanTextContent" /\ pure.done

\* C30: no paragraph cleanTextContent returns is a line that equals the title
\* but for the case of the letters, whatever the length of the line.
C30_TitleLinesDiscarded ==
  Cleaned =>
    \A k \in 1..Len(pure.out.paragraphs) : pure.out.paragraphs[k].lower # pure.title.lower

\* Both phases are over and the output is written: every Phase A task has
\* settled, no worker is left, the worklist is exhausted with every item
\* counted, and the shards, the index and the legacy snapshot are on disk.
RunComplete ==
  /\ mainPc = "output"
  /\ \A f \in Feeds : tasks[f].pc = "done"
  /\ Len(feedResults) = Len(allFeeds)
  /\ workers = EmptyBag
  /\ fetchFullText => index >= Len(allItems) /\ completed = Len(allItems)
  /\ Len(files) = Len(allFeeds) + 2
  /\ files[Len(files) - 1].name = IndexPath
  /\ files[Len(files)].name = LegacyPath

Extracted == {k \in 1..Len(allItems) : heap[allItems[k]].fullContent # Absent}
Failed ==
  {k \in 1..Len(allItems) :
     heap[allItems[k]].link # "" /\ heap[allItems[k]].fullContent = Absent}

\* C37: when Phase B has ended, whatever the interleaving of the workers was,
\* extracted is the number of worklist items that carry a fullContent and failed
\* the number of items with a link that carry none.
C37_CountersMatchItems ==
  PhaseBEnded =>
    /\ extracted = Cardinality(Extracted)
    /\ failed = Cardinality(Failed)
    /\ extracted + failed + LinkLess = Len(allItems)

\* Phase B has ended over a worklist longer than the pool, with items of each
\* kind: extracted, failed, and without a link.
C37_Witness ==
  /\ PhaseBEnded
  /\ Len(allItems) > concurrency
  /\ extracted > 0
  /\ failed > 0
  /\ LinkLess > 0

\* Every item of every feed as parseRSS makes it of the feed's document.
AsParsed ==
  [ref \in UNION {{<<f, j>> : j \in 1..Min(DocLen(f), MaxArticles(allFeeds[f]))} : f \in Feeds}
     |-> Parsed(ref)]

\* The worker that awaits the extraction of the item of this reference, if any.
Extracting(ref) ==
  {fr \in BagToSet(workers) : fr.pc = "extract" /\ allItems[fr.pos] = ref}

\* C33: a step changes the link of an item only if the item is flagged as an
\* aggregator item, the link was on the aggregator domain and the new link is
\* not, and the step changes nothing else of the item. The URL the worker
\* extracts from is the link of the item from then on, so a resolved URL is the
\* link whether the extraction succeeds or not. The index header and the shard
\* item written at the end carry the link the item has then; an item that is
\* not flagged or whose link was not on the aggregator domain has the link it
\* was parsed with.
C33_LinkReplacedOnlyByProbe ==
  /\ [][\A ref \in DOMAIN heap :
          ref \in DOMAIN heap' /\ heap'[ref].link # heap[ref].link =>
            /\ Flag(heap[ref], "isGoogleNews")
            /\ IsOnAggregator(heap[ref].link)
            /\ ~IsOnAggregator(heap'[ref].link)
            /\ heap'[ref] = [heap[ref] EXCEPT !.link = heap'[ref].link]]_vars
  /\ [](\A ref \in DOMAIN heap :
          /\ \A fr \in Extracting(ref) : fr.articleUrl = heap[ref].link
          /\ ~(Flag(AsParsed[ref], "isGoogleNews") /\ IsOnAggregator(AsParsed[ref].link)) =>
               heap[ref].link = AsParsed[ref].link
          /\ heap[ref].link # AsParsed[ref].link => ~IsOnAggregator(heap[ref].link))
  /\ [](mainPc = "output" =>
          \A f \in Feeds : \A j \in 1..Len(feedResults[f].items) :
            LET item == heap[feedResults[f].items[j]] IN
            /\ files[f].data.items[j].link = item.link
            /\ \E c \in 1..Len(WrittenIndex.categories) :
                 \E e \in 1..Len(WrittenIndex.categories[c].feeds) :
                   /\ WrittenIndex.categories[c].feeds[e].url = allFeeds[f].url
                   /\ WrittenIndex.categories[c].feeds[e].items[j].link = item.link)

\* The output of a run in which the link of an aggregator item was replaced by
\* the resolved URL and its extraction failed: the shard carries the new link.
C33_Witness ==
  /\ PhaseBEnded
  /\ \E ref \in DOMAIN heap :
       /\ heap[ref].link # AsParsed[ref].link
       /\ heap[ref].fullContent = Absent
       /\ \E f \in Feeds : \E j \in 1..Len(feedResults[f].items) :
            feedResults[f].items[j] = ref /\ files[f].data.items[j].link = heap[ref].link

\* The places <<category, position>> of the written legacy snapshot that hold
\* the feed of this url.
LegacyPlacesOf(url) ==
  {p \in UNION {{<<c, e>> : e \in 1..Len(WrittenLegacy.categories[c].feeds)} :
                c \in 1..Len(WrittenLegacy.categories)} :
     WrittenLegacy.categories[p[1]].feeds[p[2]].url = url}

\* C39: the legacy snapshot holds every configured feed exactly once, in a
\* category of its configured category name, with its items and its error,
\* whatever the configuration, two categories of one name included.
C39_LegacyHoldsEachFeedOnce ==
  mainPc = "output" =>
    \A f \in 1..Len(feedResults) :
      /\ Cardinality(LegacyPlacesOf(feedResults[f].feed.url)) = 1
      /\ \A p \in LegacyPlacesOf(feedResults[f].feed.url) :
           /\ WrittenLegacy.categories[p[1]].name = feedResults[f].feed.categoryName
           /\ WrittenLegacy.categories[p[1]].feeds[p[2]].items = ItemsOf(feedResults[f], heap)
           /\ WrittenLegacy.categories[p[1]].feeds[p[2]].error = feedResults[f].error

\* C35: a feed source with an articlesPerFeed of its own gets at most that many
\* items, and as many when its document has them, whatever the value; a source
\* without one gets config.articlesPerFeed.
C35_OverrideIsTheCap ==
  pure.fn = "feedTask" /\ pure.done =>
    LET cap == IF "articlesPerFeed" \in DOMAIN pure.feed THEN pure.feed.articlesPerFeed
               ELSE config.articlesPerFeed
    IN Len(pure.items) = Min(cap, pure.entries)

\* The page extractArticleContent fetched last is a cookie wall.
CookieWalled == IsCookieWallHtml(ex.page) \/ IsCookieWallText(ex.page)

\* C34: when the page fetched is a cookie wall, by its raw text or by the text
\* extracted from it, extractArticleContent returns null at that fetch: no wait
\* and no further fetch follows, whether retries are left or not; the item is
\* then counted as failed and has no fullContent.
C34_CookieWallYieldsNone ==
  /\ [](CookieWalled =>
          /\ ex.pc = "resolved"
          /\ ex.value = Null
          /\ ~ex.log[Len(ex.log)].threw
          /\ ex.retries = DefaultExtractRetries - (Len(ex.log) - 1)
          /\ extracted = 0
          /\ TheItem.fullContent = Absent
          /\ (workers = EmptyBag => failed = 1 /\ completed = 1))
  /\ [][CookieWalled => ex' = ex]_vars

\* The first fetch of the call brought a cookie wall: the call returned with
\* its retry unused, the item was counted as failed and the output written.
C34_Witness ==
  /\ CookieWalled
  /\ Len(ex.log) = 1
  /\ ex.retries = DefaultExtractRetries
  /\ failed = 1
  /\ mainPc = "output"
  /\ TheItem.fullContent = Absent

\* The text that survives the filters, joined: what line 118 measures.
Surviving == Dedupe(Filter(pure.text, pure.title), {})

\* C36: cleanTextContent returns null or at least one <p> paragraph, never the
\* empty string, and it returns null whenever the surviving text, joined, has
\* fewer than 100 characters.
C36_NoneOrParagraphs ==
  Cleaned =>
    /\ pure.out.kind = "html" => pure.out.paragraphs # << >>
    /\ JoinedLength(Surviving) < 100 => pure.out.kind = "null"

\* Windows-1251, for the bytes of the sample bodies.
RECURSIVE Windows1251(_)
Windows1251(buffer) ==
  IF buffer = << >> THEN << >>
  ELSE <<CASE Head(buffer) = 233 -> CodePoint(1081)
           [] Head(buffer) = 195 -> CodePoint(1043)
           [] OTHER              -> CodePoint(Head(buffer))>>
         \o Windows1251(Tail(buffer))

\* The body in the character set the response declares.
DeclaredText ==
  CASE pure.declared = "iso-8859-1"   -> Latin1(pure.buffer)
    [] pure.declared = "windows-1251" -> Windows1251(pure.buffer)
    [] OTHER                          -> Utf8(pure.buffer)

\* C31: fetchUrl decodes the body with the character set the response
\* declares, and with UTF-8 only when it declares none.
C31_DeclaredCharsetIsUsed ==
  (pure.fn = "fetchUrl.end" /\ pure.done) => pure.text = DeclaredText

\* The latest request of the followRedirect call was answered with a
\* redirect, and the URL the redirect leads to from url.
Redirected(call) ==
  call.last.kind = "response" /\ IsRedirect(call.last.status, call.last.location # "")
Target(call, url) == Href(call.last.location, url)

\* A step of the followRedirect call: a request of it ended.
ProbeStep == rd.state = "pending" /\ rd' # rd

C40_RequestsBounded ==
  /\ fw.pc # "none" => sent <= 10
  /\ fw.pc = "none" => sent <= 13

\* An item that cost 13 requests: three probes, then two fetches of five
\* requests each, and the run went on to the output.
C40_Witness ==
  /\ fw.pc = "none"
  /\ sent = 13
  /\ ex.retries = 0
  /\ failed = 1
  /\ mainPc = "output"

\* The run against the remote side of SpecSchedule with one thing done at a
\* time: feed after feed, then item after item.
SerialAnswer(f) ==
  IF pure.feed[f][1] \in {"doc", "malformed"} THEN pure.feed[f][1] ELSE pure.feed[f][2]
SerialItems(f) == parseRSS(RemoteDoc(f), allFeeds[f].title, MaxArticles(allFeeds[f]))
SerialResult(f) ==
  CASE SerialAnswer(f) = "doc"       -> Returned(allFeeds[f], Refs(f, Len(SerialItems(f))))
    [] SerialAnswer(f) = "malformed" -> Caught(allFeeds[f], ParseError)
    [] OTHER                         -> Caught(allFeeds[f], SerialAnswer(f))
SerialItem(ref) ==
  LET item == SerialItems(ref[1])[ref[2]]
      probed == Flag(item, "isGoogleNews") /\ IsOnAggregator(item.link)
      realUrl == RemoteRealUrl(item.link)
      moved == probed /\ realUrl # "" /\ ~IsOnAggregator(realUrl)
      url == IF moved THEN realUrl ELSE item.link
      content == RemoteContent(ref, url)
      linked == [item EXCEPT !.link = url]
  IN IF ~fetchFullText \/ item.link = "" THEN item
     ELSE IF HasContent(content) THEN [linked EXCEPT !.fullContent = content]
     ELSE linked
SerialRefs ==
  {<<f, j>> : f \in Feeds, j \in 1..MaxDocItems} \cap
    {ref \in Feeds \X (1..MaxDocItems) :
       SerialAnswer(ref[1]) = "doc" /\ ref[2] <= Len(SerialItems(ref[1]))}
SerialFiles ==
  WriteOutput([f \in Feeds |-> SerialResult(f)], [ref \in SerialRefs |-> SerialItem(ref)],
              categoryNames)

\* C38: for fixed remote responses the files written are the same for every
\* completion order of the Phase A tasks and every interleaving of the Phase B
\* workers: the feeds' order, each feed's items in order, each item's link and
\* fullContent, in the index and in the shards.
C38_OutputIndependentOfScheduling ==
  (pure.fn = "remote" /\ mainPc = "output") => files = SerialFiles

\* A run with Phase B whose tasks settled in another order than the
\* configuration's, with a link replaced and an article extracted.
C38_Witness ==
  /\ pure.fn = "remote"
  /\ mainPc = "output"
  /\ fetchFullText
  /\ settled = <<3, 2, 1>>
  /\ claimed # << >>
  /\ heap[<<1, 1>>].link = "https://pub.example/real"
  /\ extracted >= 2

====
